---- MODULE Spec2Model ----
(***************************************************************************)
(* UntimedExplosion: the lobby -> game lifecycle and the game engine.      *)
(*                                                                         *)
(*   gameplay.rs  Lobby (add_player, remove_player, may_start, start) and  *)
(*                Game (new, distribute_cables, cut, next_round)           *)
(*   game.rs      the /game/cut handler, game_won, send_round, cut_cable   *)
(*   lobby.rs     the /lobby handlers (create, join, events, ready, leave, *)
(*                start), the lobby ConnectionGuard and the sweeps         *)
(*                                                                         *)
(* A Vec<Cable> hand is kept as a multiset (a count per cable kind): every *)
(* read of a hand in the code is preceded by a shuffle (cut_cable shuffles *)
(* then pops, distribute_cables shuffles the pool), so the order of a hand *)
(* never decides anything.  Random choices (shuffle, choose) are           *)
(* nondeterministic; the `all` arguments of the Game::new operators say    *)
(* whether a specification enumerates every outcome of a random choice or  *)
(* follows the one outcome in which the shuffle leaves the vector as built *)
(* and `choose` returns the smallest key.                                  *)
(***************************************************************************)
EXTENDS Integers, Sequences, FiniteSets, TLC

VARIABLES
    lobbys,       \* GlobalState.lobbys: room code -> handle of a Lobby, 0: absent
    games,        \* GlobalState.games:  room code -> handle of a Game, 0: absent
    lobbyObj,     \* the Lobby behind each handle (Arc<Mutex<Lobby>>)
    gameObj,      \* the Game behind each handle (Arc<Mutex<Game>>)
    poisoned,     \* handles of Games whose std Mutex a panic has poisoned
    locks,        \* the task holding each tokio Mutex of lobby.rs, or None:
                  \* .lobbys the registry's, .room[h] the one of Lobby h
    task,         \* each request / connection task: its position and locals
    lastCutted,   \* history: the target of the last successful cut, 0: none yet
    cuts,         \* history: number of cuts applied so far (see MaxCuts)
    sweeps,       \* room code -> number of spawned game sweeps still asleep
    shutdown      \* the process-wide Shutdown signal has been raised

vars == <<lobbys, games, lobbyObj, gameObj, poisoned, locks, task,
          lastCutted, cuts, sweeps, shutdown>>

None == "None"

(***************************************************************************)
(* Bounds                                                                  *)
(***************************************************************************)
\* successful cuts a behaviour of the game specifications may contain
MaxCuts == 5
\* no new stream is requested for a Game in which a mailbox holds MaxMail
\* messages
MaxMail == 3
\* a lobby stream that has yielded MaxEvents events is sent no more messages
MaxEvents == 3
\* every outcome of the cable shuffle is followed for lobbys of up to
\* MaxDealt players, the shuffle that changes nothing for larger ones
MaxDealt == 5
\* cuts a behaviour of SpecSnap may contain
MaxSnapCuts == 2
\* Lobbys a behaviour of SpecCreate may build
MaxLobbys == 2

(***************************************************************************)
(* Program constants                                                       *)
(***************************************************************************)
CablesPerPlayer == 5
MinPlayers == 4
MaxPlayers == 8

Team == {"Sherlock", "Moriarty"}
Cable == {"Safe", "Defusing", "Bomb"}

\* the room code of the checked scenarios
Codes == {"AAAA"}
\* the codes of the scenarios in which lobbys are created: the code a caller
\* supplies and one more that the generator can draw
RoomCodes == {"AAAA", "BBBB"}

(***************************************************************************)
(* Helpers on vectors and multisets                                        *)
(***************************************************************************)
Min(S) == CHOOSE x \in S : \A y \in S : x <= y

\* the keys of a HashMap in one iteration order (ascending)
RECURSIVE SetToSeq(_)
SetToSeq(S) == IF S = {} THEN <<>> ELSE <<Min(S)>> \o SetToSeq(S \ {Min(S)})

\* std::iter::repeat(value).take(quantity)
Repeat(quantity, value) == [i \in 1..quantity |-> value]

Count(v, x) == Cardinality({i \in DOMAIN v : v[i] = x})

EmptyHand == [c \in Cable |-> 0]
HandLen(h) == h["Safe"] + h["Defusing"] + h["Bomb"]
HandOf(v) == [c \in Cable |-> Count(v, c)]
HandMinus(h, k) == [c \in Cable |-> h[c] - k[c]]
HandPlus(h, k) == [c \in Cable |-> h[c] + k[c]]

RECURSIVE SumHands(_, _)
SumHands(players, ids) ==
    IF ids = {} THEN EmptyHand
    ELSE LET p == Min(ids)
         IN HandPlus(players[p].cables, SumHands(players, ids \ {p}))

RECURSIVE SumLen(_, _)
SumLen(f, ids) ==
    IF ids = {} THEN 0
    ELSE LET p == Min(ids) IN f[p] + SumLen(f, ids \ {p})

\* every outcome of v.shuffle(): the arrangements of v's elements
Shuffles(v) ==
    {s \in [DOMAIN v -> {v[i] : i \in DOMAIN v}] :
        \A x \in {v[i] : i \in DOMAIN v} : Count(s, x) = Count(v, x)}

(***************************************************************************)
(* gameplay.rs: Game                                                       *)
(***************************************************************************)
\* cables_count that forgets the Bomb when it counts the Safe cables
cables_count_NoBomb(player_count) ==
    LET defusing == player_count
        bomb == 1
        safe == player_count * CablesPerPlayer - defusing
    IN [safe |-> safe, defusing |-> defusing, bomb |-> bomb]

\* Game::cables_count
cables_count(player_count) ==
    LET defusing == player_count
        bomb == 1
        safe == player_count * CablesPerPlayer - defusing - bomb
    IN [safe |-> safe, defusing |-> defusing, bomb |-> bomb]

\* the team vector with the 6-player row split evenly
TeamsVec_EvenSix(n) ==
    IF n \in 4..5 THEN Repeat(3, "Sherlock") \o Repeat(2, "Moriarty")
    ELSE IF n = 6 THEN Repeat(3, "Sherlock") \o Repeat(3, "Moriarty")
    ELSE IF n \in 7..8 THEN Repeat(5, "Sherlock") \o Repeat(3, "Moriarty")
    ELSE <<>>

\* the match of Game::new: the team vector by player count
TeamsVec(n) ==
    IF n \in 4..5 THEN Repeat(3, "Sherlock") \o Repeat(2, "Moriarty")
    ELSE IF n = 6 THEN Repeat(4, "Sherlock") \o Repeat(2, "Moriarty")
    ELSE IF n \in 7..8 THEN Repeat(5, "Sherlock") \o Repeat(3, "Moriarty")
    ELSE <<>>   \* unreachable!(): Game::new panics, see NewPanics

NewPanics(ids) == Cardinality(ids) \notin MinPlayers..MaxPlayers

\* teams.shuffle(); players.iter().zip(teams): the i-th player of the
\* iteration gets the i-th team of the shuffled vector, and zip stops at the
\* shorter of the two
TeamOutcomes(ids, all) ==
    LET order == SetToSeq(ids)
        shuffled == IF all THEN Shuffles(TeamsVec(Cardinality(ids)))
                    ELSE {TeamsVec(Cardinality(ids))}
    IN {[p \in {order[i] : i \in DOMAIN order \cap DOMAIN s} |->
            s[CHOOSE i \in DOMAIN order : order[i] = p]] : s \in shuffled}

\* the hands of size k that can be taken out of pool
SubHands(pool, k) ==
    {h \in [Cable -> 0..k] : HandLen(h) = k /\ \A c \in Cable : h[c] <= pool[c]}

\* every way shuffle + split_off can deal cpp cables to each of ids
RECURSIVE DealAll(_, _, _)
DealAll(pool, ids, cpp) ==
    IF ids = {} THEN {<<>>}
    ELSE LET p == Min(ids)
         IN UNION {{(p :> h) @@ rest :
                        rest \in DealAll(HandMinus(pool, h), ids \ {p}, cpp)} :
                   h \in SubHands(pool, cpp)}

\* the deal when the shuffle leaves the vector as it is: each player in turn
\* takes the last cpp cables of what is left
RECURSIVE DealVec(_, _, _)
DealVec(v, order, cpp) ==
    IF order = <<>> THEN <<>>
    ELSE LET keep == Len(v) - cpp
         IN (Head(order) :> HandOf(SubSeq(v, keep + 1, Len(v))))
            @@ DealVec(SubSeq(v, 1, keep), Tail(order), cpp)

HandVec(h) ==
    Repeat(h["Safe"], "Safe") \o Repeat(h["Defusing"], "Defusing")
        \o Repeat(h["Bomb"], "Bomb")

\* distribute_cables computing the share from one cable too few
distribute_cables_ShortShare(g, cables, all) ==
    LET ids == DOMAIN g.players
        cables_per_player == (HandLen(cables) - 1) \div Cardinality(ids)
        deals == IF all THEN DealAll(cables, ids, cables_per_player)
                 ELSE {DealVec(HandVec(cables), SetToSeq(ids), cables_per_player)}
    IN {[g EXCEPT !.players =
            [p \in ids |-> [g.players[p] EXCEPT !.cables = d[p]]]] : d \in deals}

\* Game::distribute_cables: the games it can leave (cables is the pool)
distribute_cables(g, cables, all) ==
    LET ids == DOMAIN g.players
        cables_per_player == HandLen(cables) \div Cardinality(ids)
        deals == IF all THEN DealAll(cables, ids, cables_per_player)
                 ELSE {DealVec(HandVec(cables), SetToSeq(ids), cables_per_player)}
    IN {[g EXCEPT !.players =
            [p \in ids |-> [g.players[p] EXCEPT !.cables = d[p]]]] : d \in deals}

\* the holder drawn as an index into the map instead of one of its keys
ChooseWireCutters_Index(ids, all) ==
    IF all THEN 0..(Cardinality(ids) - 1) ELSE {0}

\* players.keys().choose(): the holder of the wire cutter
ChooseWireCutters(ids, all) == IF all THEN ids ELSE {Min(ids)}

\* PlayingPlayer::new (game.rs): empty vectors and a new channel.  receiver
\* says where the read end of the channel is: "slot" (receiver is Some),
\* "taken" (a stream took it, receiver is None) or "dropped" (the read end
\* was destroyed, receiver is None and every send fails); mailbox is the
\* queue of the channel, a message being its kind
PlayingPlayer_new(team) ==
    [team |-> team, cables |-> EmptyHand, revealed_cables |-> <<>>,
     receiver |-> "slot", mailbox |-> <<>>]

\* PlayingPlayer::connected
connected(player) == player.receiver # "slot"

\* Game::new
Game_new(name, lobbyPlayers, allTeams, allHolders, allDeals) ==
    LET teams == TeamOutcomes(DOMAIN lobbyPlayers, allTeams)
        count == cables_count(Cardinality(DOMAIN lobbyPlayers))
        cables == [c \in Cable |->
                      IF c = "Safe" THEN count.safe
                      ELSE IF c = "Defusing" THEN count.defusing ELSE count.bomb]
    IN UNION {UNION {distribute_cables(
                        [name |-> name,
                         players |-> [p \in DOMAIN t |->
                                        PlayingPlayer_new(t[p])],
                         wire_cutters |-> w,
                         defusing_remaining |-> count.defusing,
                         cutted_count |-> 0],
                        cables, allDeals) :
                     w \in ChooseWireCutters(DOMAIN t, allHolders)} :
              t \in teams}

\* results of Game::cut
Err(e) == [kind |-> "Err", err |-> e, cable |-> None, outcome |-> None]
Ok(cable, outcome) ==
    [kind |-> "Ok", err |-> None, cable |-> cable, outcome |-> outcome]
Panic == [kind |-> "Panic", err |-> None, cable |-> None, outcome |-> None]

\* PlayingPlayer::cut_cable (game.rs): shuffle, pop, push to revealed_cables
cut_cable(player, cable) ==
    [player EXCEPT !.cables[cable] = @ - 1,
                   !.revealed_cables = Append(@, cable)]

\* the outcome with the round ending one cut late
CutOutcome_LateRoundEnd(g, cable) ==
    IF g.defusing_remaining = 0 THEN Ok(cable, "WinSherlock")
    ELSE IF g.cutted_count = Cardinality(DOMAIN g.players) + 1
         THEN Ok(cable, "RoundEnd")
         ELSE Ok(cable, "Nothing")

\* what follows the match of Game::cut
CutOutcome(g, cable) ==
    IF g.defusing_remaining = 0 THEN Ok(cable, "WinSherlock")
    ELSE IF g.cutted_count = Cardinality(DOMAIN g.players)
         THEN Ok(cable, "RoundEnd")
         ELSE Ok(cable, "Nothing")

\* the cut with the Bomb arm returning before the wire cutter is handed over
CutChecked_BombKeepsHolder(g, cutted) ==
    IF cutted \notin DOMAIN g.players
    THEN {[game |-> g, res |-> Panic]}
    ELSE IF HandLen(g.players[cutted].cables) = 0
    THEN {[game |-> g, res |-> Panic]}
    ELSE {LET g0 == [g EXCEPT !.players[cutted] = cut_cable(@, cable)]
              g1 == [g0 EXCEPT !.wire_cutters = cutted]
          IN CASE cable = "Safe" ->
                    LET g2 == [g1 EXCEPT !.cutted_count = @ + 1]
                    IN [game |-> g2, res |-> CutOutcome(g2, cable)]
               [] cable = "Defusing" ->
                    IF g1.defusing_remaining = 0
                    THEN [game |-> g1, res |-> Panic]
                    ELSE LET g2 == [g1 EXCEPT !.defusing_remaining = @ - 1,
                                              !.cutted_count = @ + 1]
                         IN [game |-> g2, res |-> CutOutcome(g2, cable)]
               [] cable = "Bomb" ->
                    [game |-> g0, res |-> Ok(cable, "WinMoriarty")] :
          cable \in {c \in Cable : g.players[cutted].cables[c] > 0}}

\* the cut with the Bomb arm counting the cut like the other two arms
CutChecked_BombCounts(g, cutted) ==
    IF cutted \notin DOMAIN g.players
    THEN {[game |-> g, res |-> Panic]}
    ELSE IF HandLen(g.players[cutted].cables) = 0
    THEN {[game |-> g, res |-> Panic]}
    ELSE {LET g1 == [g EXCEPT !.players[cutted] = cut_cable(@, cable),
                              !.wire_cutters = cutted]
          IN CASE cable = "Safe" ->
                    LET g2 == [g1 EXCEPT !.cutted_count = @ + 1]
                    IN [game |-> g2, res |-> CutOutcome(g2, cable)]
               [] cable = "Defusing" ->
                    IF g1.defusing_remaining = 0
                    THEN [game |-> g1, res |-> Panic]
                    ELSE LET g2 == [g1 EXCEPT !.defusing_remaining = @ - 1,
                                              !.cutted_count = @ + 1]
                         IN [game |-> g2, res |-> CutOutcome(g2, cable)]
               [] cable = "Bomb" ->
                    [game |-> [g1 EXCEPT !.cutted_count = @ + 1],
                     res |-> Ok(cable, "WinMoriarty")] :
          cable \in {c \in Cable : g.players[cutted].cables[c] > 0}}

\* the cut with the Defusing arm leaving cutted_count as it is
CutChecked_DefusingUncounted(g, cutted) ==
    IF cutted \notin DOMAIN g.players
    THEN {[game |-> g, res |-> Panic]}
    ELSE IF HandLen(g.players[cutted].cables) = 0
    THEN {[game |-> g, res |-> Panic]}
    ELSE {LET g1 == [g EXCEPT !.players[cutted] = cut_cable(@, cable),
                              !.wire_cutters = cutted]
          IN CASE cable = "Safe" ->
                    LET g2 == [g1 EXCEPT !.cutted_count = @ + 1]
                    IN [game |-> g2, res |-> CutOutcome(g2, cable)]
               [] cable = "Defusing" ->
                    IF g1.defusing_remaining = 0
                    THEN [game |-> g1, res |-> Panic]
                    ELSE LET g2 == [g1 EXCEPT !.defusing_remaining = @ - 1]
                         IN [game |-> g2, res |-> CutOutcome(g2, cable)]
               [] cable = "Bomb" ->
                    [game |-> g1, res |-> Ok(cable, "WinMoriarty")] :
          cable \in {c \in Cable : g.players[cutted].cables[c] > 0}}

\* Game::cut, lines 200-218: the cut itself, once the two checks passed
CutChecked(g, cutted) ==
    IF cutted \notin DOMAIN g.players
    THEN {[game |-> g, res |-> Panic]}                \* get_mut().unwrap()
    ELSE IF HandLen(g.players[cutted].cables) = 0
    THEN {[game |-> g, res |-> Panic]}                \* pop().unwrap()
    ELSE {LET g1 == [g EXCEPT !.players[cutted] = cut_cable(@, cable),
                              !.wire_cutters = cutted]
          IN CASE cable = "Safe" ->
                    LET g2 == [g1 EXCEPT !.cutted_count = @ + 1]
                    IN [game |-> g2, res |-> CutOutcome(g2, cable)]
               [] cable = "Defusing" ->
                    IF g1.defusing_remaining = 0
                    THEN [game |-> g1, res |-> Panic]   \* usize underflow
                    ELSE LET g2 == [g1 EXCEPT !.defusing_remaining = @ - 1,
                                              !.cutted_count = @ + 1]
                         IN [game |-> g2, res |-> CutOutcome(g2, cable)]
               [] cable = "Bomb" ->
                    [game |-> g1, res |-> Ok(cable, "WinMoriarty")] :
          cable \in {c \in Cable : g.players[cutted].cables[c] > 0}}

\* Game::cut with its two checks in the other order
Game_cut_SelfCheckFirst(g, cutting, cutted) ==
    IF cutted = cutting
    THEN {[game |-> g, res |-> Err("CannotSelfCut")]}
    ELSE IF cutting # g.wire_cutters
    THEN {[game |-> g, res |-> Err("DontHaveWireCutter")]}
    ELSE CutChecked(g, cutted)

\* Game::cut without the self-cut check
Game_cut_NoSelfCheck(g, cutting, cutted) ==
    IF cutting # g.wire_cutters
    THEN {[game |-> g, res |-> Err("DontHaveWireCutter")]}
    ELSE CutChecked(g, cutted)

\* Game::cut: the set of [game, res] it can end with
Game_cut(g, cutting, cutted) ==
    IF cutting # g.wire_cutters
    THEN {[game |-> g, res |-> Err("DontHaveWireCutter")]}
    ELSE IF cutted = cutting
    THEN {[game |-> g, res |-> Err("CannotSelfCut")]}
    ELSE CutChecked(g, cutted)

\* Game::next_round: the set of [game, over] it can end with
next_round(g, all) ==
    LET g1 == [g EXCEPT !.cutted_count = 0]
        cables == SumHands(g1.players, DOMAIN g1.players)
    IN IF HandLen(cables) = Cardinality(DOMAIN g1.players)
       THEN {[game |-> g1, over |-> TRUE]}
       ELSE {[game |-> g2, over |-> FALSE] :
                g2 \in distribute_cables(g1, cables, all)}

(***************************************************************************)
(* gameplay.rs: Lobby                                                      *)
(***************************************************************************)
\* Lobby::new
Lobby_new(name) == [name |-> name, players |-> <<>>]

\* add_player admitting a player into a lobby that is already full
add_player_OffByOne(l, id) ==
    IF Cardinality(DOMAIN l.players) > MaxPlayers
    THEN [lobby |-> l, res |-> "GameFull"]
    ELSE IF id \in DOMAIN l.players
    THEN [lobby |-> l, res |-> "AlreadyConnected"]
    ELSE [lobby |-> [l EXCEPT !.players = (id :> [ready |-> FALSE]) @@ @],
          res |-> "Ok"]

\* Lobby::add_player: [lobby, res]; a lobby.rs Player starts with ready: false
add_player(l, id) ==
    IF Cardinality(DOMAIN l.players) >= MaxPlayers
    THEN [lobby |-> l, res |-> "GameFull"]
    ELSE IF id \in DOMAIN l.players
    THEN [lobby |-> l, res |-> "AlreadyConnected"]
    ELSE [lobby |-> [l EXCEPT !.players = (id :> [ready |-> FALSE]) @@ @],
          res |-> "Ok"]

\* Lobby::remove_player
remove_player(l, id) ==
    [l EXCEPT !.players = [p \in DOMAIN @ \ {id} |-> @[p]]]

\* Lobby::may_start
may_start(l) ==
    /\ Cardinality(DOMAIN l.players) >= MinPlayers
    /\ \A p \in DOMAIN l.players : l.players[p].ready

\* Lobby::start
Lobby_start(l, allTeams, allHolders, allDeals) ==
    Game_new(l.name, l.players, allTeams, allHolders, allDeals)

(***************************************************************************)
(* Tasks.  A request handler or connection task is a record: pc is its     *)
(* position, lobby / id / player are its inputs (the "lobby" and "id"      *)
(* cookies, the ?player= parameter), h the handle its request guard        *)
(* resolved, g the Game it built, res the result of Game::cut, status its  *)
(* response.  For a stream, out is the sequence of events it has yielded   *)
(* and stale the number of messages at the head of its mailbox that were   *)
(* sent before it took the read end (history).  For a game stream, n is    *)
(* the number of Cut messages still to come to it for cuts that were       *)
(* applied before its Initialize snapshot (history; Cut messages arrive in *)
(* the order of the cuts when one handler at a time cuts).                 *)
(***************************************************************************)
Idle ==
    [pc |-> "idle", lobby |-> None, id |-> 0, player |-> 0, h |-> 0,
     g |-> 0, res |-> None, status |-> None, out |-> <<>>, stale |-> 0,
     n |-> 0]

Done(t, status) == [task EXCEPT ![t] = [@ EXCEPT !.pc = "done", !.status = status]]

\* the handler has answered: the task is free for the next request
Return(t) ==
    /\ task[t].pc = "done"
    /\ task' = [task EXCEPT ![t] = Idle]
    /\ UNCHANGED <<sweeps, shutdown, lobbys, games, lobbyObj, gameObj, poisoned, locks,
                   lastCutted, cuts>>

(***************************************************************************)
(* game.rs: GET /game/cut?<player>                                         *)
(***************************************************************************)
\* Protected::lock on a Game: lock().unwrap() panics on a poisoned Mutex
LockPanics(h) == h \in poisoned

\* player.sender.send(msg).unwrap() for every player of ids
SendAll(g, ids, msg) ==
    [g EXCEPT !.players =
        [p \in DOMAIN @ |->
            IF p \in ids THEN [@[p] EXCEPT !.mailbox = Append(@, msg)]
            ELSE @[p]]]

\* Protected<Game>::broadcast, send_round: one send per player under one
\* lock, in the order of the HashMap.  A send to a channel whose read end
\* was dropped fails and unwrap() panics with the lock held: the players
\* visited before got the message (none or all of them here)
broadcast(g, msg) ==
    LET live == {p \in DOMAIN g.players : g.players[p].receiver # "dropped"}
    IN IF live = DOMAIN g.players
       THEN {[game |-> SendAll(g, live, msg), panic |-> FALSE]}
       ELSE {[game |-> g, panic |-> TRUE],
             [game |-> SendAll(g, live, msg), panic |-> TRUE]}

\* the request guard (FromRequest for Protected<Game>): the "lobby" cookie is
\* looked up in state.games and the handle cloned
cut_request(t, lobby) ==
    /\ task[t].pc = "idle"
    /\ cuts < MaxCuts
    /\ task' = [task EXCEPT ![t] =
         IF games[lobby] = 0
         THEN [Idle EXCEPT !.pc = "done", !.lobby = lobby, !.status = "NotFound"]
         ELSE [Idle EXCEPT !.pc = "cut", !.lobby = lobby, !.h = games[lobby]]]
    /\ UNCHANGED <<sweeps, shutdown, lobbys, games, lobbyObj, gameObj, poisoned, locks,
                   lastCutted, cuts>>

\* lines 368-394: the two membership checks, then
\* let result = game.lock().cut(id, player) and the match on it.  A Game's
\* player map never changes and a poisoned Mutex stays poisoned, so the three
\* lock acquisitions are one step; id (the "id" cookie) and player (the
\* ?player= parameter) are the request's inputs
cut_apply(t, id, player) ==
    /\ task[t].pc = "cut"
    /\ LET h == task[t].h
           me == [task[t] EXCEPT !.id = id, !.player = player]
       IN
       IF LockPanics(h)
       THEN /\ task' = [task EXCEPT ![t] =
                          [me EXCEPT !.pc = "done", !.status = "Panic"]]
            /\ UNCHANGED <<gameObj, poisoned, lastCutted, cuts>>
       ELSE IF id \notin DOMAIN gameObj[h].players
       THEN /\ task' = [task EXCEPT ![t] =
                 [me EXCEPT !.pc = "done",
                            !.status = "You are not part of this game"]]
            /\ UNCHANGED <<gameObj, poisoned, lastCutted, cuts>>
       ELSE IF player \notin DOMAIN gameObj[h].players
       THEN /\ task' = [task EXCEPT ![t] =
                 [me EXCEPT !.pc = "done",
                    !.status = "The player you specified is not part of this game"]]
            /\ UNCHANGED <<gameObj, poisoned, lastCutted, cuts>>
       ELSE \E r \in Game_cut(gameObj[h], id, player) :
            /\ gameObj' = [gameObj EXCEPT ![h] = r.game]
            /\ poisoned' = IF r.res.kind = "Panic" THEN poisoned \cup {h}
                           ELSE poisoned
            /\ lastCutted' = IF r.res.kind = "Ok" THEN player ELSE lastCutted
            /\ cuts' = IF r.res.kind = "Ok" THEN cuts + 1 ELSE cuts
            /\ task' = [task EXCEPT ![t] =
                 CASE r.res.kind = "Ok" ->
                        [me EXCEPT !.pc = "broadcast", !.res = r.res]
                   [] r.res.kind = "Err" ->
                        [me EXCEPT !.pc = "done", !.res = r.res,
                                   !.status = r.res.err]
                   [] OTHER ->
                        [me EXCEPT !.pc = "done", !.res = r.res,
                                   !.status = "Panic"]]
    /\ UNCHANGED <<sweeps, shutdown, lobbys, games, lobbyObj, locks>>

\* line 396: game.broadcast(Cut), then the match on the outcome
cut_broadcast(t) ==
    /\ task[t].pc = "broadcast"
    /\ LET h == task[t].h IN
       IF LockPanics(h)
       THEN /\ task' = Done(t, "Panic")
            /\ UNCHANGED <<gameObj, poisoned>>
       ELSE \E b \in broadcast(gameObj[h], "Cut") :
            /\ gameObj' = [gameObj EXCEPT ![h] = b.game]
            /\ poisoned' = IF b.panic THEN poisoned \cup {h} ELSE poisoned
            /\ task' = [task EXCEPT ![t] =
                 IF b.panic
                 THEN [@ EXCEPT !.pc = "done", !.status = "Panic"]
                 ELSE CASE task[t].res.outcome = "Nothing" ->
                             [@ EXCEPT !.pc = "done", !.status = "Ok"]
                        [] task[t].res.outcome = "RoundEnd" ->
                             [@ EXCEPT !.pc = "next_round"]
                        [] OTHER -> [@ EXCEPT !.pc = "game_won"]]
    /\ UNCHANGED <<sweeps, shutdown, lobbys, games, lobbyObj, locks, lastCutted, cuts>>

\* line 402: if game.lock().next_round() { game_won } else { send_round }
cut_next_round(t, allDeals) ==
    /\ task[t].pc = "next_round"
    /\ LET h == task[t].h IN
       IF LockPanics(h)
       THEN /\ task' = Done(t, "Panic")
            /\ UNCHANGED gameObj
       ELSE \E r \in next_round(gameObj[h], allDeals) :
            /\ gameObj' = [gameObj EXCEPT ![h] = r.game]
            /\ task' = [task EXCEPT ![t] =
                 IF r.over
                 THEN [@ EXCEPT !.pc = "game_won",
                                !.res = Ok(@.cable, "Exhausted")]
                 ELSE [@ EXCEPT !.pc = "send_round"]]
    /\ UNCHANGED <<sweeps, shutdown, lobbys, games, lobbyObj, poisoned, locks, lastCutted, cuts>>

\* send_round: one RoundStart per player, under one lock
send_round(t) ==
    /\ task[t].pc = "send_round"
    /\ LET h == task[t].h IN
       IF LockPanics(h)
       THEN /\ task' = Done(t, "Panic")
            /\ UNCHANGED <<gameObj, poisoned>>
       ELSE \E b \in broadcast(gameObj[h], "RoundStart") :
            /\ gameObj' = [gameObj EXCEPT ![h] = b.game]
            /\ poisoned' = IF b.panic THEN poisoned \cup {h} ELSE poisoned
            /\ task' = Done(t, IF b.panic THEN "Panic" ELSE "Ok")
    /\ UNCHANGED <<sweeps, shutdown, lobbys, games, lobbyObj, locks, lastCutted, cuts>>

\* game_won, lines 254-264: the winners, then broadcast(Win)
game_won_broadcast(t) ==
    /\ task[t].pc = "game_won"
    /\ LET h == task[t].h IN
       IF LockPanics(h)
       THEN /\ task' = Done(t, "Panic")
            /\ UNCHANGED <<gameObj, poisoned>>
       ELSE \E b \in broadcast(gameObj[h], "Win") :
            /\ gameObj' = [gameObj EXCEPT ![h] = b.game]
            /\ poisoned' = IF b.panic THEN poisoned \cup {h} ELSE poisoned
            /\ task' = [task EXCEPT ![t] =
                 IF b.panic
                 THEN [@ EXCEPT !.pc = "done", !.status = "Panic"]
                 ELSE [@ EXCEPT !.pc = "game_won_remove"]]
    /\ UNCHANGED <<sweeps, shutdown, lobbys, games, lobbyObj, locks, lastCutted, cuts>>

\* game_won, lines 266-271: state.games.remove(name), the cookies
game_won_remove(t) ==
    /\ task[t].pc = "game_won_remove"
    /\ IF LockPanics(task[t].h)
       THEN /\ task' = Done(t, "Panic")
            /\ UNCHANGED games
       ELSE /\ games' = [games EXCEPT ![gameObj[task[t].h].name] = 0]
            /\ task' = Done(t, "Ok")
    /\ UNCHANGED <<sweeps, shutdown, lobbys, lobbyObj, gameObj, poisoned, locks, lastCutted, cuts>>

\* every step of the cut handler of task t
cut(t, ids, allDeals) ==
    \/ \E lobby \in Codes : cut_request(t, lobby)
    \/ \E id \in ids, player \in ids : cut_apply(t, id, player)
    \/ cut_broadcast(t)
    \/ cut_next_round(t, allDeals)
    \/ send_round(t)
    \/ game_won_broadcast(t)
    \/ game_won_remove(t)
    \/ Return(t)

(***************************************************************************)
(* SpecGame: one game of NumPlayers players as Game::new leaves it, its    *)
(* cut requests handled one at a time (a single handler task).             *)
(* SpecCut: the same game with two handler tasks interleaving.             *)
(***************************************************************************)
Tasks == {"h1", "h2"}
GameIds == 1..MinPlayers
\* ids a request may carry: the players and one id that is in no game
RequestIds == GameIds \cup {0}

ReadyLobby(ids) == [p \in ids |-> [ready |-> TRUE]]

InitGame(allHolders, allDeals) ==
    /\ lobbys = [c \in Codes |-> 0]
    /\ lobbyObj = <<>>
    /\ games = [c \in Codes |-> 1]
    /\ \E g \in Game_new("AAAA", ReadyLobby(GameIds), FALSE, allHolders, allDeals) :
          gameObj = <<g>>
    /\ poisoned = {}
    /\ locks = [lobbys |-> None, room |-> <<>>]
    /\ task = [t \in Tasks |-> Idle]
    /\ lastCutted = 0
    /\ cuts = 0
    /\ sweeps = [c \in Codes |-> 1]
    /\ shutdown = FALSE

NextGame == cut("h1", RequestIds, TRUE)

SpecGame == InitGame(TRUE, FALSE) /\ [][NextGame]_vars

NextCut == \E t \in Tasks : cut(t, RequestIds, FALSE)

SpecCut == InitGame(FALSE, FALSE) /\ [][NextCut]_vars

\* SpecWin: two handler tasks on a game whose first shuffle dealt one
\* Defusing cable to every hand and the Bomb to the first holder, so that n
\* cuts can defuse the bomb; the requests carry ids of players only
InitWin ==
    /\ lobbys = [c \in Codes |-> 0]
    /\ lobbyObj = <<>>
    /\ games = [c \in Codes |-> 1]
    /\ \E g \in Game_new("AAAA", ReadyLobby(GameIds), FALSE, FALSE, TRUE) :
          /\ \A p \in DOMAIN g.players : g.players[p].cables["Defusing"] = 1
          /\ g.players[g.wire_cutters].cables["Bomb"] = 1
          /\ gameObj = <<g>>
    /\ poisoned = {}
    /\ locks = [lobbys |-> None, room |-> <<>>]
    /\ task = [t \in Tasks |-> Idle]
    /\ lastCutted = 0
    /\ cuts = 0
    /\ sweeps = [c \in Codes |-> 1]
    /\ shutdown = FALSE

NextWin == \E t \in Tasks : cut(t, GameIds, FALSE)

SpecWin == InitWin /\ [][NextWin]_vars

(***************************************************************************)
(* lobby.rs: GET /lobby/start.  The Mutexes of lobby.rs are tokio's: a     *)
(* task waits for one while it keeps those it holds.  A lock taken and     *)
(* released within one statement is one step, enabled when the lock is     *)
(* free; a lock kept across an .await has its owner in `locks`.            *)
(***************************************************************************)
LobbysFree == locks.lobbys = None
RoomFree(h) == locks.room[h] = None

\* lines 358-362: state.lobbys.lock().await, lobbys.get(cookie)
start_request(t, lobby) ==
    /\ task[t].pc = "idle"
    /\ LobbysFree
    /\ IF lobbys[lobby] = 0
       THEN /\ task' = [task EXCEPT ![t] =
                  [Idle EXCEPT !.pc = "done", !.lobby = lobby,
                               !.status = "NotFound"]]
            /\ UNCHANGED locks
       ELSE /\ task' = [task EXCEPT ![t] =
                  [Idle EXCEPT !.pc = "start_check", !.lobby = lobby,
                               !.h = lobbys[lobby]]]
            /\ locks' = [locks EXCEPT !.lobbys = t]
    /\ UNCHANGED <<sweeps, shutdown, lobbys, games, lobbyObj, gameObj, poisoned, lastCutted, cuts>>

\* start that checks may_start and leaves the lobby in the registry
start_check_NoRemove(t) ==
    /\ task[t].pc = "start_check"
    /\ RoomFree(task[t].h)
    /\ task' = [task EXCEPT ![t] =
         IF may_start(lobbyObj[task[t].h])
         THEN [@ EXCEPT !.pc = "start_new"]
         ELSE [@ EXCEPT !.pc = "done", !.status = "PreconditionRequired"]]
    /\ locks' = [locks EXCEPT !.lobbys = None]
    /\ UNCHANGED <<sweeps, shutdown, lobbys, games, lobbyObj, gameObj, poisoned, lastCutted, cuts>>

\* lines 363-372: lobby.lock().await, may_start, lobbys.remove(name); the
\* Lobby's lock is released at the end of the inner block, the registry's at
\* the end of the outer one
start_check(t) ==
    /\ task[t].pc = "start_check"
    /\ RoomFree(task[t].h)
    /\ IF may_start(lobbyObj[task[t].h])
       THEN /\ lobbys' = [lobbys EXCEPT ![lobbyObj[task[t].h].name] = 0]
            /\ task' = [task EXCEPT ![t] = [@ EXCEPT !.pc = "start_new"]]
       ELSE /\ task' = Done(t, "PreconditionRequired")
            /\ UNCHANGED lobbys
    /\ locks' = [locks EXCEPT !.lobbys = None]
    /\ UNCHANGED <<sweeps, shutdown, games, lobbyObj, gameObj, poisoned, lastCutted, cuts>>

\* line 374: lobby.lock().await.start(); Game::new panics (unreachable!())
\* unless the lobby has 4 to 8 players
start_new(t, allTeams, allHolders, allDeals) ==
    /\ task[t].pc = "start_new"
    /\ RoomFree(task[t].h)
    /\ IF NewPanics(DOMAIN lobbyObj[task[t].h].players)
       THEN /\ task' = Done(t, "Panic")
            /\ UNCHANGED gameObj
       ELSE \E g \in Lobby_start(lobbyObj[task[t].h],
                                 allTeams, allHolders, allDeals) :
            /\ gameObj' = Append(gameObj, g)
            /\ task' = [task EXCEPT ![t] =
                          [@ EXCEPT !.pc = "start_insert",
                                    !.g = Len(gameObj) + 1]]
    /\ UNCHANGED <<sweeps, shutdown, lobbys, games, lobbyObj, poisoned, locks, lastCutted, cuts>>

\* lines 375-376: state.games.lock().await.insert(name, Protected::new(game))
start_insert(t) ==
    /\ task[t].pc = "start_insert"
    /\ games' = [games EXCEPT ![gameObj[task[t].g].name] = task[t].g]
    /\ task' = [task EXCEPT ![t] = [@ EXCEPT !.pc = "start_notify"]]
    /\ UNCHANGED <<sweeps, shutdown, lobbys, lobbyObj, gameObj, poisoned, locks, lastCutted, cuts>>

\* lines 378-405: Start to every player of the lobby, the sweep of the new
\* Game spawned (it sleeps 120 s), then Status::Ok
start_notify(t) ==
    /\ task[t].pc = "start_notify"
    /\ RoomFree(task[t].h)
    /\ sweeps' = [sweeps EXCEPT ![lobbyObj[task[t].h].name] = @ + 1]
    /\ task' = Done(t, "Ok")
    /\ UNCHANGED <<shutdown, lobbys, games, lobbyObj, gameObj, poisoned, locks,
                   lastCutted, cuts>>

\* every step of the start handler of task t
start(t, allTeams, allHolders, allDeals) ==
    \/ \E lobby \in Codes : start_request(t, lobby)
    \/ start_check(t)
    \/ start_new(t, allTeams, allHolders, allDeals)
    \/ start_insert(t)
    \/ start_notify(t)

(***************************************************************************)
(* SpecNew: a lobby of 4 to 8 ready players and one start request, with    *)
(* every outcome of the team shuffle and of the choice of the holder.      *)
(* SpecStart: the same lobby and two concurrent start requests.            *)
(***************************************************************************)
StartTasks == {"s1", "s2"}

InitLobby(tasks) ==
    /\ lobbys = [c \in Codes |-> IF c = "AAAA" THEN 1 ELSE 0]
    /\ \E n \in MinPlayers..MaxPlayers :
          lobbyObj = <<[name |-> "AAAA", players |-> ReadyLobby(1..n)]>>
    /\ games = [c \in Codes |-> 0]
    /\ gameObj = <<>>
    /\ poisoned = {}
    /\ locks = [lobbys |-> None, room |-> <<None>>]
    /\ task = [t \in tasks |-> Idle]
    /\ lastCutted = 0
    /\ cuts = 0
    /\ sweeps = [c \in Codes |-> 0]
    /\ shutdown = FALSE

NextNew == start("s1", TRUE, TRUE, FALSE)

SpecNew == InitLobby({"s1"}) /\ [][NextNew]_vars

NextStart == \E t \in StartTasks : start(t, FALSE, TRUE, FALSE)

SpecStart == InitLobby(StartTasks) /\ [][NextStart]_vars

(***************************************************************************)
(* lobby.rs: the request guard FromRequest for Protected<Lobby<Player>>    *)
(* (lines 118-133) is the first step of events and ready: it locks the     *)
(* registry, looks the "lobby" cookie up and clones the handle.            *)
(***************************************************************************)
\* lines 122-133 for a handler whose next position is pc
from_request(t, lobby, id, pc) ==
    /\ task[t].pc = "idle"
    /\ LobbysFree
    /\ task' = [task EXCEPT ![t] =
         IF lobbys[lobby] = 0
         THEN [Idle EXCEPT !.pc = "done", !.lobby = lobby, !.id = id,
                           !.status = "NotFound"]
         ELSE [Idle EXCEPT !.pc = pc, !.lobby = lobby, !.id = id,
                           !.h = lobbys[lobby]]]
    /\ UNCHANGED <<sweeps, shutdown, lobbys, games, lobbyObj, gameObj, poisoned, locks,
                   lastCutted, cuts>>

(***************************************************************************)
(* lobby.rs: GET /lobby/events and the ConnectionGuard of its stream       *)
(***************************************************************************)
\* the messages a lobby stream can find in its mailbox (Message, lines 62-82)
LobbyMessages == {"Join", "Leave", "Ready", "Start", "SelfLeave"}

\* line 261: lobby.lock().await.add_player(player); lines 262-276
events_add(t) ==
    /\ task[t].pc = "events_add"
    /\ RoomFree(task[t].h)
    /\ LET r == add_player(lobbyObj[task[t].h], task[t].id)
       IN  /\ lobbyObj' = [lobbyObj EXCEPT ![task[t].h] = r.lobby]
           /\ task' = [task EXCEPT ![t] =
                 IF r.res = "Ok"
                 THEN [@ EXCEPT !.pc = "events_init"]
                 ELSE [@ EXCEPT !.pc = "done", !.out = <<"Error">>,
                                !.status = r.res]]
    /\ UNCHANGED <<sweeps, shutdown, lobbys, games, gameObj, poisoned, locks, lastCutted, cuts>>

\* lines 278-282: the Initialize event
events_init(t) ==
    /\ task[t].pc = "events_init"
    /\ RoomFree(task[t].h)
    /\ task' = [task EXCEPT ![t] =
                   [@ EXCEPT !.pc = "events_join", !.out = <<"Initialize">>]]
    /\ UNCHANGED <<sweeps, shutdown, lobbys, games, lobbyObj, gameObj, poisoned, locks,
                   lastCutted, cuts>>

\* lines 284-286: broadcast of Join, then the guard exists and the loop runs
events_join(t) ==
    /\ task[t].pc = "events_join"
    /\ RoomFree(task[t].h)
    /\ task' = [task EXCEPT ![t] = [@ EXCEPT !.pc = "loop"]]
    /\ UNCHANGED <<sweeps, shutdown, lobbys, games, lobbyObj, gameObj, poisoned, locks,
                   lastCutted, cuts>>

\* the client goes away while the stream waits for the Lobby lock of line
\* 278 or is suspended at the yield of Initialize (line 279): the stream is
\* dropped after add_player and before the ConnectionGuard of line 286 exists
events_cancel(t) ==
    /\ task[t].pc \in {"events_init", "events_join"}
    /\ task' = Done(t, "Cancelled")
    /\ UNCHANGED <<lobbys, games, lobbyObj, gameObj, poisoned, locks,
                   lastCutted, cuts, sweeps, shutdown>>

\* lines 288-307, the arm msg = receiver.recv(): SelfLeave ends the loop,
\* any other message is yielded and Start ends the loop.  The mailbox of a
\* lobby player is not kept: msg is any message the lobby can send
lobby_recv(t, msg) ==
    /\ task[t].pc = "loop"
    /\ Len(task[t].out) < MaxEvents
    /\ task' = [task EXCEPT ![t] =
         IF msg = "SelfLeave" THEN [@ EXCEPT !.pc = "return"]
         ELSE [@ EXCEPT !.out = Append(@, msg),
                        !.pc = IF msg = "Start" THEN "return" ELSE "loop"]]
    /\ UNCHANGED <<lobbys, games, lobbyObj, gameObj, poisoned, locks,
                   lastCutted, cuts, sweeps, shutdown>>

\* lines 291-296, the arm () = &mut end: "Server closed", return
lobby_shutdown(t) ==
    /\ task[t].pc = "loop"
    /\ shutdown
    /\ task' = [task EXCEPT ![t] =
         [@ EXCEPT !.out = Append(@, "Server closed"), !.pc = "return"]]
    /\ UNCHANGED <<lobbys, games, lobbyObj, gameObj, poisoned, locks,
                   lastCutted, cuts, sweeps, shutdown>>

\* the loop of the stream of task t
lobby_loop(t) ==
    \/ \E msg \in LobbyMessages : lobby_recv(t, msg)
    \/ lobby_shutdown(t)

\* ConnectionGuard::drop, lines 145-146: the loop has ended ("return") or
\* the client went away while the stream was suspended in it ("loop");
\* blocking_broadcast of Leave
drop_broadcast(t) ==
    /\ task[t].pc \in {"loop", "return"}
    /\ RoomFree(task[t].h)
    /\ task' = [task EXCEPT ![t] = [@ EXCEPT !.pc = "drop_remove"]]
    /\ UNCHANGED <<sweeps, shutdown, lobbys, games, lobbyObj, gameObj, poisoned, locks,
                   lastCutted, cuts>>

\* lines 148-151: blocking_lock of the Lobby, remove_player; the Lobby stays
\* locked while an empty lobby goes on to the registry
drop_remove(t) ==
    /\ task[t].pc = "drop_remove"
    /\ RoomFree(task[t].h)
    /\ LET l == remove_player(lobbyObj[task[t].h], task[t].id)
       IN  /\ lobbyObj' = [lobbyObj EXCEPT ![task[t].h] = l]
           /\ IF DOMAIN l.players = {}
              THEN /\ locks' = [locks EXCEPT !.room[task[t].h] = t]
                   /\ task' = [task EXCEPT ![t] = [@ EXCEPT !.pc = "drop_lobbys"]]
              ELSE /\ task' = Done(t, "Closed")
                   /\ UNCHANGED locks
    /\ UNCHANGED <<sweeps, shutdown, lobbys, games, gameObj, poisoned, lastCutted, cuts>>

\* line 152: self.lobbys.blocking_lock().remove(lobby.name()), then both
\* guards go out of scope
drop_lobbys(t) ==
    /\ task[t].pc = "drop_lobbys"
    /\ LobbysFree
    /\ lobbys' = [lobbys EXCEPT ![lobbyObj[task[t].h].name] = 0]
    /\ locks' = [locks EXCEPT !.room[task[t].h] = None]
    /\ task' = Done(t, "Closed")
    /\ UNCHANGED <<sweeps, shutdown, games, lobbyObj, gameObj, poisoned, lastCutted, cuts>>

\* every step of the events stream of task t
events(t, ids) ==
    \/ \E lobby \in Codes, id \in ids : from_request(t, lobby, id, "events_add")
    \/ events_add(t)
    \/ events_init(t)
    \/ events_join(t)
    \/ events_cancel(t)
    \/ drop_broadcast(t)
    \/ drop_remove(t)
    \/ drop_lobbys(t)

(***************************************************************************)
(* lobby.rs: GET /lobby/ready?<state>                                      *)
(***************************************************************************)
\* line 323: lobby.lock().await.get_player(id).is_some()
ready_get(t) ==
    /\ task[t].pc = "ready_get"
    /\ RoomFree(task[t].h)
    /\ task' = IF task[t].id \in DOMAIN lobbyObj[task[t].h].players
               THEN [task EXCEPT ![t] = [@ EXCEPT !.pc = "ready_set"]]
               ELSE Done(t, "Ok")
    /\ UNCHANGED <<sweeps, shutdown, lobbys, games, lobbyObj, gameObj, poisoned, locks,
                   lastCutted, cuts>>

\* line 324: lobby.lock().await.get_player_mut(id).unwrap().ready = state
ready_set(t, state) ==
    /\ task[t].pc = "ready_set"
    /\ RoomFree(task[t].h)
    /\ IF task[t].id \in DOMAIN lobbyObj[task[t].h].players
       THEN /\ lobbyObj' = [lobbyObj EXCEPT
                  ![task[t].h].players[task[t].id].ready = state]
            /\ task' = [task EXCEPT ![t] = [@ EXCEPT !.pc = "ready_broadcast"]]
       ELSE /\ task' = Done(t, "Panic")
            /\ UNCHANGED lobbyObj
    /\ UNCHANGED <<sweeps, shutdown, lobbys, games, gameObj, poisoned, locks, lastCutted, cuts>>

\* line 325: broadcast of Ready
ready_broadcast(t) ==
    /\ task[t].pc = "ready_broadcast"
    /\ RoomFree(task[t].h)
    /\ task' = Done(t, "Ok")
    /\ UNCHANGED <<sweeps, shutdown, lobbys, games, lobbyObj, gameObj, poisoned, locks,
                   lastCutted, cuts>>

\* every step of the ready handler of task t
ready(t, ids) ==
    \/ \E lobby \in Codes, id \in ids : from_request(t, lobby, id, "ready_get")
    \/ ready_get(t)
    \/ \E state \in BOOLEAN : ready_set(t, state)
    \/ ready_broadcast(t)

(***************************************************************************)
(* lobby.rs: GET /lobby/join?<lobby>&<name>                                *)
(***************************************************************************)
\* lines 207-210: state.lobbys.lock().await, lobbys.get(lobby_name); the
\* registry stays locked while the handler waits for the Lobby
join_request(t, lobby) ==
    /\ task[t].pc = "idle"
    /\ LobbysFree
    /\ IF lobbys[lobby] = 0
       THEN /\ task' = [task EXCEPT ![t] =
                  [Idle EXCEPT !.pc = "done", !.lobby = lobby,
                               !.status = "NotFound"]]
            /\ UNCHANGED locks
       ELSE /\ task' = [task EXCEPT ![t] =
                  [Idle EXCEPT !.pc = "join_lock", !.lobby = lobby,
                               !.h = lobbys[lobby]]]
            /\ locks' = [locks EXCEPT !.lobbys = t]
    /\ UNCHANGED <<sweeps, shutdown, lobbys, games, lobbyObj, gameObj, poisoned, lastCutted, cuts>>

\* lines 211-224: lobby.await, an id no player of the lobby has, both guards
\* dropped, the cookies set
join_lock(t, id) ==
    /\ task[t].pc = "join_lock"
    /\ RoomFree(task[t].h)
    /\ id \notin DOMAIN lobbyObj[task[t].h].players
    /\ task' = [task EXCEPT ![t] =
                   [@ EXCEPT !.pc = "done", !.id = id, !.status = "Ok"]]
    /\ locks' = [locks EXCEPT !.lobbys = None]
    /\ UNCHANGED <<sweeps, shutdown, lobbys, games, lobbyObj, gameObj, poisoned, lastCutted, cuts>>

\* every step of the join handler of task t
join(t, ids) ==
    \/ \E lobby \in Codes : join_request(t, lobby)
    \/ \E id \in ids : join_lock(t, id)

(***************************************************************************)
(* SpecLobby: the lobby "AAAA" with one player, or with MinPlayers ready   *)
(* players; the connection of player 1 is in its loop.  A second stream,   *)
(* a ready request, a join request and a start request run beside it.      *)
(***************************************************************************)
Streams == {"c1", "c2"}
LobbyTasks == Streams \cup {"r1", "j1", "s1"}
\* ids a lobby request may carry: player 1 and one id no player has yet
LobbyIds == {1, MinPlayers + 1}

InitRoom ==
    /\ lobbys = [c \in Codes |-> IF c = "AAAA" THEN 1 ELSE 0]
    /\ \E n \in {1, MinPlayers} :
          lobbyObj = <<[name |-> "AAAA", players |-> ReadyLobby(1..n)]>>
    /\ games = [c \in Codes |-> 0]
    /\ gameObj = <<>>
    /\ poisoned = {}
    /\ locks = [lobbys |-> None, room |-> <<None>>]
    /\ task = [t \in LobbyTasks |->
                  IF t = "c1"
                  THEN [Idle EXCEPT !.pc = "loop", !.lobby = "AAAA",
                                    !.id = 1, !.h = 1,
                                    !.out = <<"Initialize">>]
                  ELSE Idle]
    /\ lastCutted = 0
    /\ cuts = 0
    /\ sweeps = [c \in Codes |-> 0]
    /\ shutdown = FALSE

NextLobby ==
    \/ \E t \in Streams : events(t, LobbyIds)
    \/ ready("r1", LobbyIds)
    \/ join("j1", LobbyIds)
    \/ start("s1", FALSE, FALSE, FALSE)
    \/ \E t \in LobbyTasks : Return(t)

SpecLobby == InitRoom /\ [][NextLobby]_vars

(***************************************************************************)
(* game.rs: GET /game/events, the ConnectionGuard of its stream and the    *)
(* sweep it spawns.  The Mutexes of game.rs are std's: every lock() is     *)
(* taken and released within one statement, and lock().unwrap() panics     *)
(* when an earlier panic poisoned the Mutex (handle 0 is the registry).    *)
(***************************************************************************)
RegistryPanics == 0 \in poisoned

\* the longest mailbox of the Game registered as lobby, 0 if there is none
MailLen(lobby) ==
    IF games[lobby] = 0 THEN 0
    ELSE LET ps == gameObj[games[lobby]].players
             lens == {Len(ps[p].mailbox) : p \in DOMAIN ps}
         IN CHOOSE n \in lens : \A m \in lens : m <= n

\* lines 168-184 and 284-296: the request guard and the cookies
game_from_request(t, lobby, id) ==
    /\ task[t].pc = "idle"
    /\ MailLen(lobby) < MaxMail
    /\ task' = [task EXCEPT ![t] =
         IF RegistryPanics
         THEN [Idle EXCEPT !.pc = "done", !.lobby = lobby, !.id = id,
                           !.status = "Panic"]
         ELSE IF games[lobby] = 0
         THEN [Idle EXCEPT !.pc = "done", !.lobby = lobby, !.id = id,
                           !.out = <<"Error">>,
                           !.status = "You are not in a game"]
         ELSE [Idle EXCEPT !.pc = "attach_get", !.lobby = lobby, !.id = id,
                           !.h = games[lobby]]]
    /\ UNCHANGED <<lobbys, games, lobbyObj, gameObj, poisoned, locks,
                   lastCutted, cuts, sweeps, shutdown>>

\* the stream panics or is dropped while it owns the read end outside a
\* ConnectionGuard: the read end is destroyed
DropReceiver(h, id) ==
    [gameObj EXCEPT ![h].players[id].receiver = "dropped"]

\* lines 298-303: game.lock().get_player(id).is_none()
attach_get(t) ==
    /\ task[t].pc = "attach_get"
    /\ task' = [task EXCEPT ![t] =
         IF LockPanics(task[t].h)
         THEN [@ EXCEPT !.pc = "done", !.status = "Panic"]
         ELSE IF task[t].id \notin DOMAIN gameObj[task[t].h].players
         THEN [@ EXCEPT !.pc = "done", !.out = <<"Error">>,
                        !.status = "You are not part of this game"]
         ELSE [@ EXCEPT !.pc = "attach_take"]]
    /\ UNCHANGED <<lobbys, games, lobbyObj, gameObj, poisoned, locks,
                   lastCutted, cuts, sweeps, shutdown>>

\* the take that leaves the read end in the slot
attach_take_NoTake(t) ==
    /\ task[t].pc = "attach_take"
    /\ LET h == task[t].h
           id == task[t].id
       IN IF LockPanics(h)
          THEN /\ task' = Done(t, "Panic")
               /\ UNCHANGED gameObj
          ELSE IF gameObj[h].players[id].receiver = "slot"
          THEN /\ UNCHANGED gameObj
               /\ task' = [task EXCEPT ![t] =
                    [@ EXCEPT !.pc = "attach_drain",
                              !.stale = Len(gameObj[h].players[id].mailbox)]]
          ELSE /\ task' = [task EXCEPT ![t] =
                    [@ EXCEPT !.pc = "done", !.out = <<"Error">>,
                       !.status = "You are already connected to this game"]]
               /\ UNCHANGED gameObj
    /\ UNCHANGED <<lobbys, games, lobbyObj, poisoned, locks,
                   lastCutted, cuts, sweeps, shutdown>>

\* lines 305-310: game.lock().get_player_mut(id).unwrap().receiver.take()
attach_take(t) ==
    /\ task[t].pc = "attach_take"
    /\ LET h == task[t].h
           id == task[t].id
       IN IF LockPanics(h)
          THEN /\ task' = Done(t, "Panic")
               /\ UNCHANGED gameObj
          ELSE IF gameObj[h].players[id].receiver = "slot"
          THEN /\ gameObj' = [gameObj EXCEPT
                                 ![h].players[id].receiver = "taken"]
               /\ task' = [task EXCEPT ![t] =
                    [@ EXCEPT !.pc = "attach_drain",
                              !.stale = Len(gameObj[h].players[id].mailbox)]]
          ELSE /\ task' = [task EXCEPT ![t] =
                    [@ EXCEPT !.pc = "done", !.out = <<"Error">>,
                       !.status = "You are already connected to this game"]]
               /\ UNCHANGED gameObj
    /\ UNCHANGED <<lobbys, games, lobbyObj, poisoned, locks,
                   lastCutted, cuts, sweeps, shutdown>>

\* the stream that keeps what its mailbox holds
attach_drain_Keep(t) ==
    /\ task[t].pc = "attach_drain"
    /\ task' = [task EXCEPT ![t] = [@ EXCEPT !.pc = "attach_init"]]
    /\ UNCHANGED <<lobbys, games, lobbyObj, gameObj, poisoned, locks,
                   lastCutted, cuts, sweeps, shutdown>>

\* lines 311-313: while receiver.try_recv().is_ok() {}
attach_drain(t) ==
    /\ task[t].pc = "attach_drain"
    /\ gameObj' = [gameObj EXCEPT
                      ![task[t].h].players[task[t].id].mailbox = <<>>]
    /\ task' = [task EXCEPT ![t] =
                   [@ EXCEPT !.pc = "attach_init", !.stale = 0]]
    /\ UNCHANGED <<lobbys, games, lobbyObj, poisoned, locks,
                   lastCutted, cuts, sweeps, shutdown>>

\* the Cut messages that player id of Game h has or will get for cuts
\* already applied: those in its mailbox and those of the handlers that have
\* applied their cut (line 385) and not yet broadcast it (line 396)
SnapshotCuts(h, id) ==
    Count(gameObj[h].players[id].mailbox, "Cut")
        + Cardinality({u \in DOMAIN task :
                          task[u].pc = "broadcast" /\ task[u].h = h})

\* lines 315-324: the snapshot under one lock, then yield Initialize
attach_init(t) ==
    /\ task[t].pc = "attach_init"
    /\ IF LockPanics(task[t].h)
       THEN /\ gameObj' = DropReceiver(task[t].h, task[t].id)
            /\ task' = Done(t, "Panic")
       ELSE /\ task' = [task EXCEPT ![t] =
                 [@ EXCEPT !.pc = "attach_round", !.out = <<"Initialize">>,
                           !.n = SnapshotCuts(task[t].h, task[t].id)]]
            /\ UNCHANGED gameObj
    /\ UNCHANGED <<lobbys, games, lobbyObj, poisoned, locks,
                   lastCutted, cuts, sweeps, shutdown>>

\* lines 325-327: the client took Initialize; yield RoundStart
attach_round(t) ==
    /\ task[t].pc = "attach_round"
    /\ IF LockPanics(task[t].h)
       THEN /\ gameObj' = DropReceiver(task[t].h, task[t].id)
            /\ task' = Done(t, "Panic")
       ELSE /\ task' = [task EXCEPT ![t] =
                 [@ EXCEPT !.pc = "attach_connect",
                           !.out = Append(@, "RoundStart")]]
            /\ UNCHANGED gameObj
    /\ UNCHANGED <<lobbys, games, lobbyObj, poisoned, locks,
                   lastCutted, cuts, sweeps, shutdown>>

\* lines 329-338: the client took RoundStart; broadcast(Connect), then the
\* ConnectionGuard owns the read end and the loop starts
attach_connect(t) ==
    /\ task[t].pc = "attach_connect"
    /\ LET h == task[t].h IN
       IF LockPanics(h)
       THEN /\ gameObj' = DropReceiver(h, task[t].id)
            /\ task' = Done(t, "Panic")
            /\ UNCHANGED poisoned
       ELSE \E b \in broadcast(gameObj[h], "Connect") :
            IF b.panic
            THEN /\ gameObj' = [gameObj EXCEPT ![h] =
                      [b.game EXCEPT !.players[task[t].id].receiver = "dropped"]]
                 /\ poisoned' = poisoned \cup {h}
                 /\ task' = Done(t, "Panic")
            ELSE /\ gameObj' = [gameObj EXCEPT ![h] = b.game]
                 /\ task' = [task EXCEPT ![t] = [@ EXCEPT !.pc = "game_loop"]]
                 /\ UNCHANGED poisoned
    /\ UNCHANGED <<lobbys, games, lobbyObj, locks,
                   lastCutted, cuts, sweeps, shutdown>>

\* the client goes away while the stream is suspended at the yield of
\* Initialize or of RoundStart (lines 324-327): the stream is dropped with
\* the read end in a local variable, no ConnectionGuard exists yet
cancel_early(t) ==
    /\ task[t].pc \in {"attach_round", "attach_connect"}
    /\ gameObj' = DropReceiver(task[t].h, task[t].id)
    /\ task' = Done(t, "Cancelled")
    /\ UNCHANGED <<lobbys, games, lobbyObj, poisoned, locks,
                   lastCutted, cuts, sweeps, shutdown>>

\* lines 341-355, the arm msg = receiver.recv(): the message is yielded and
\* a Win ends the loop
game_recv(t) ==
    /\ task[t].pc = "game_loop"
    /\ LET h == task[t].h
           id == task[t].id
           box == gameObj[h].players[id].mailbox
       IN /\ box # <<>>
          /\ gameObj' = [gameObj EXCEPT ![h].players[id].mailbox = Tail(box)]
          /\ task' = [task EXCEPT ![t] =
               [@ EXCEPT !.out = Append(@, Head(box)),
                         !.stale = IF @ > 0 THEN @ - 1 ELSE 0,
                         !.n = IF @ > 0 /\ Head(box) = "Cut" THEN @ - 1 ELSE @,
                         !.pc = IF Head(box) = "Win" THEN "game_drop"
                                ELSE "game_loop"]]
    /\ UNCHANGED <<lobbys, games, lobbyObj, poisoned, locks,
                   lastCutted, cuts, sweeps, shutdown>>

\* lines 343-348, the arm () = &mut end: "Server closed", break
game_shutdown(t) ==
    /\ task[t].pc = "game_loop"
    /\ shutdown
    /\ task' = [task EXCEPT ![t] =
         [@ EXCEPT !.out = Append(@, "Server closed"), !.pc = "game_drop"]]
    /\ UNCHANGED <<lobbys, games, lobbyObj, gameObj, poisoned, locks,
                   lastCutted, cuts, sweeps, shutdown>>

\* the client goes away while the stream is suspended in its loop: the
\* stream is dropped and with it the ConnectionGuard
game_cancel(t) ==
    /\ task[t].pc = "game_loop"
    /\ task' = [task EXCEPT ![t] = [@ EXCEPT !.pc = "game_drop"]]
    /\ UNCHANGED <<lobbys, games, lobbyObj, gameObj, poisoned, locks,
                   lastCutted, cuts, sweeps, shutdown>>

\* ConnectionGuard::drop, lines 198-199: broadcast(Disconnect).  A panic in
\* drop destroys the guard's fields, the read end among them
game_drop_broadcast(t) ==
    /\ task[t].pc = "game_drop"
    /\ LET h == task[t].h IN
       IF LockPanics(h)
       THEN /\ gameObj' = DropReceiver(h, task[t].id)
            /\ task' = Done(t, "Panic")
            /\ UNCHANGED poisoned
       ELSE \E b \in broadcast(gameObj[h], "Disconnect") :
            IF b.panic
            THEN /\ gameObj' = [gameObj EXCEPT ![h] =
                      [b.game EXCEPT !.players[task[t].id].receiver = "dropped"]]
                 /\ poisoned' = poisoned \cup {h}
                 /\ task' = Done(t, "Panic")
            ELSE /\ gameObj' = [gameObj EXCEPT ![h] = b.game]
                 /\ task' = [task EXCEPT ![t] =
                                [@ EXCEPT !.pc = "game_drop_replace"]]
                 /\ UNCHANGED poisoned
    /\ UNCHANGED <<lobbys, games, lobbyObj, locks,
                   lastCutted, cuts, sweeps, shutdown>>

\* lines 201-232: the read end goes back into the slot; if no player is
\* connected any more a sweep is spawned (it sleeps five minutes)
game_drop_replace(t) ==
    /\ task[t].pc = "game_drop_replace"
    /\ LET h == task[t].h IN
       IF LockPanics(h)
       THEN /\ gameObj' = DropReceiver(h, task[t].id)
            /\ task' = Done(t, "Panic")
            /\ UNCHANGED sweeps
       ELSE LET g == [gameObj[h] EXCEPT !.players[task[t].id].receiver = "slot"]
                game_empty == ~ \E p \in DOMAIN g.players : connected(g.players[p])
            IN /\ gameObj' = [gameObj EXCEPT ![h] = g]
               /\ sweeps' = IF game_empty
                            THEN [sweeps EXCEPT ![g.name] = @ + 1]
                            ELSE sweeps
               /\ task' = Done(t, "Closed")
    /\ UNCHANGED <<lobbys, games, lobbyObj, poisoned, locks,
                   lastCutted, cuts, shutdown>>

\* every step of the events stream of task t
game_events(t, ids) ==
    \/ \E lobby \in Codes, id \in ids : game_from_request(t, lobby, id)
    \/ attach_get(t)
    \/ attach_take(t)
    \/ attach_drain(t)
    \/ attach_init(t)
    \/ attach_round(t)
    \/ attach_connect(t)
    \/ cancel_early(t)
    \/ game_recv(t)
    \/ game_shutdown(t)
    \/ game_cancel(t)
    \/ game_drop_broadcast(t)
    \/ game_drop_replace(t)

\* a sweep that removes the Game without looking at its players
sweep_NoCheck(id) ==
    /\ sweeps[id] > 0
    /\ sweeps' = [sweeps EXCEPT ![id] = @ - 1]
    /\ IF RegistryPanics \/ games[id] = 0
       THEN UNCHANGED <<games, poisoned>>
       ELSE /\ games' = [games EXCEPT ![id] = 0]
            /\ UNCHANGED poisoned
    /\ UNCHANGED <<lobbys, lobbyObj, gameObj, locks, task,
                   lastCutted, cuts, shutdown>>

\* the sweep of a Game (game.rs lines 213-231, lobby.rs lines 384-403) wakes
\* up: under the registry lock it looks the code up, locks the Game and
\* removes it if no player is connected
sweep(id) ==
    /\ sweeps[id] > 0
    /\ sweeps' = [sweeps EXCEPT ![id] = @ - 1]
    /\ IF RegistryPanics \/ games[id] = 0
       THEN UNCHANGED <<games, poisoned>>
       ELSE IF LockPanics(games[id])
       THEN /\ poisoned' = poisoned \cup {0}
            /\ UNCHANGED games
       ELSE LET ps == gameObj[games[id]].players
            IN /\ games' = IF \E p \in DOMAIN ps : connected(ps[p])
                           THEN games
                           ELSE [games EXCEPT ![id] = 0]
               /\ UNCHANGED poisoned
    /\ UNCHANGED <<lobbys, lobbyObj, gameObj, locks, task,
                   lastCutted, cuts, shutdown>>

\* rocket::Shutdown: the signal is raised once and stays raised
notify_shutdown ==
    /\ ~shutdown
    /\ shutdown' = TRUE
    /\ UNCHANGED <<lobbys, games, lobbyObj, gameObj, poisoned, locks, task,
                   lastCutted, cuts, sweeps>>

(***************************************************************************)
(* SpecConn: a started game, its first sweep asleep, and two streams that  *)
(* attach as player 1 or 2 or with an id that is in no game.               *)
(***************************************************************************)
GameStreams == {"g1", "g2"}
ConnIds == {0, 1, 2}

InitConn ==
    /\ lobbys = [c \in Codes |-> 0]
    /\ lobbyObj = <<>>
    /\ games = [c \in Codes |-> 1]
    /\ \E g \in Game_new("AAAA", ReadyLobby(GameIds), FALSE, FALSE, FALSE) :
          gameObj = <<g>>
    /\ poisoned = {}
    /\ locks = [lobbys |-> None, room |-> <<>>]
    /\ task = [t \in GameStreams |-> Idle]
    /\ lastCutted = 0
    /\ cuts = 0
    /\ sweeps = [c \in Codes |-> 1]
    /\ shutdown = FALSE

NextConn ==
    \/ \E t \in GameStreams : game_events(t, ConnIds)
    \/ \E t \in GameStreams : Return(t)
    \/ \E id \in Codes : sweep(id)
    \/ notify_shutdown

SpecConn == InitConn /\ [][NextConn]_vars

\* the steps of a stream that wait for nothing but the Game lock
stream_step(t) ==
    \/ attach_get(t)
    \/ attach_take(t)
    \/ attach_drain(t)
    \/ attach_init(t)
    \/ game_drop_broadcast(t)
    \/ game_drop_replace(t)

\* SpecConnFair: a sweep asleep eventually wakes up and a stream that can
\* take a step of its own eventually does; clients and the shutdown signal
\* are free to act or not
SpecConnFair ==
    /\ SpecConn
    /\ \A id \in Codes : WF_vars(sweep(id))
    /\ \A t \in GameStreams : WF_vars(stream_step(t))

(***************************************************************************)
(* SpecClose: the shutdown signal and the loops of the streams.  Either a  *)
(* lobby "AAAA" with the one player of stream c1, a second stream c2 and a *)
(* join request beside it, or a started game "AAAA" to which stream g1     *)
(* attaches as player 1.                                                   *)
(* The select! of a loop polls its arms in random order, so an arm that is *)
(* ready again and again is eventually taken; a step that waits for locks  *)
(* only is taken once the locks are free.                                  *)
(***************************************************************************)
CloseTasks == {"c1", "c2", "j1", "g1"}

InitClose ==
    /\ \/ /\ lobbys = [c \in Codes |-> 1]
          /\ lobbyObj = <<[name |-> "AAAA", players |-> ReadyLobby({1})]>>
          /\ games = [c \in Codes |-> 0]
          /\ gameObj = <<>>
          /\ locks = [lobbys |-> None, room |-> <<None>>]
          /\ task = [t \in CloseTasks |->
                        IF t = "c1"
                        THEN [Idle EXCEPT !.pc = "loop", !.lobby = "AAAA",
                                          !.id = 1, !.h = 1,
                                          !.out = <<"Initialize">>]
                        ELSE Idle]
          /\ sweeps = [c \in Codes |-> 0]
       \/ /\ lobbys = [c \in Codes |-> 0]
          /\ lobbyObj = <<>>
          /\ games = [c \in Codes |-> 1]
          /\ \E g \in Game_new("AAAA", ReadyLobby(GameIds), FALSE, FALSE, FALSE) :
                gameObj = <<g>>
          /\ locks = [lobbys |-> None, room |-> <<>>]
          /\ task = [t \in CloseTasks |-> Idle]
          /\ sweeps = [c \in Codes |-> 1]
    /\ poisoned = {}
    /\ lastCutted = 0
    /\ cuts = 0
    /\ shutdown = FALSE

NextClose ==
    \/ \E t \in Streams : events(t, {1, 2}) \/ lobby_loop(t)
    \/ join("j1", {1, 2})
    \/ game_events("g1", {1})
    \/ \E id \in Codes : sweep(id)
    \/ \E t \in CloseTasks : Return(t)
    \/ notify_shutdown

\* the steps of a stream after its loop, and those of a join request
close_step(t) ==
    \/ task[t].pc = "return" /\ drop_broadcast(t)
    \/ drop_remove(t)
    \/ drop_lobbys(t)
    \/ \E id \in {1, 2} : join_lock(t, id)
    \/ game_drop_broadcast(t)
    \/ game_drop_replace(t)

SpecClose ==
    /\ InitClose
    /\ [][NextClose]_vars
    /\ \A t \in CloseTasks : WF_vars(close_step(t))
    /\ \A t \in Streams : SF_vars(lobby_shutdown(t))
    /\ SF_vars(game_shutdown("g1"))

(***************************************************************************)
(* lobby.rs: GET /lobby/create?<id>&<name> and the sweep it spawns.  The   *)
(* task slot of a create request stands for the handler and then for the   *)
(* sweep task the handler spawned.                                         *)
(***************************************************************************)
\* the codes that are in neither registry
FreeCodes == {c \in DOMAIN lobbys : lobbys[c] = 0 /\ games[c] = 0}

\* lines 161-176: both registries locked, the code (the caller's id, or a
\* generated one) redrawn while one of the registries has it, the new Lobby
\* inserted; the generator draws from the codes of the scenario
create_insert(t, id, generated) ==
    /\ task[t].pc = "idle"
    /\ LobbysFree
    /\ Len(lobbyObj) < MaxLobbys
    /\ generated \in FreeCodes
    /\ LET code == IF id \in FreeCodes THEN id ELSE generated
       IN /\ lobbyObj' = Append(lobbyObj, Lobby_new(code))
          /\ lobbys' = [lobbys EXCEPT ![code] = Len(lobbyObj) + 1]
          /\ locks' = [locks EXCEPT !.room = Append(@, None)]
          /\ task' = [task EXCEPT ![t] =
                         [Idle EXCEPT !.pc = "create_sleep", !.lobby = code]]
    /\ UNCHANGED <<games, gameObj, poisoned, lastCutted, cuts, sweeps, shutdown>>

\* lines 180-192: the sweep wakes up after 60 s; under the registry lock it
\* looks the code up, locks the Lobby found and removes it if it is empty
create_sweep(t) ==
    /\ task[t].pc = "create_sleep"
    /\ LobbysFree
    /\ LET h == lobbys[task[t].lobby]
       IN IF h = 0
          THEN UNCHANGED lobbys
          ELSE /\ RoomFree(h)
               /\ lobbys' = IF DOMAIN lobbyObj[h].players = {}
                            THEN [lobbys EXCEPT ![task[t].lobby] = 0]
                            ELSE lobbys
    /\ task' = Done(t, "Ok")
    /\ UNCHANGED <<games, lobbyObj, gameObj, poisoned, locks, lastCutted, cuts,
                   sweeps, shutdown>>

\* every step of the create handler of task t and of its sweep
create(t, ids) ==
    \/ \E id \in ids, generated \in ids : create_insert(t, id, generated)
    \/ create_sweep(t)

(***************************************************************************)
(* SpecCreate: the lobby "AAAA" with 4 to 8 ready players, a start request *)
(* for it, two create requests whose callers supply a code or not, a       *)
(* stream for a created lobby and the sweeps.                              *)
(***************************************************************************)
CreateTasks == {"k1", "k2", "s1", "c1"}

InitCreate ==
    /\ lobbys = [c \in RoomCodes |-> IF c = "AAAA" THEN 1 ELSE 0]
    /\ \E n \in MinPlayers..MaxPlayers :
          lobbyObj = <<[name |-> "AAAA", players |-> ReadyLobby(1..n)]>>
    /\ games = [c \in RoomCodes |-> 0]
    /\ gameObj = <<>>
    /\ poisoned = {}
    /\ locks = [lobbys |-> None, room |-> <<None>>]
    /\ task = [t \in CreateTasks |-> Idle]
    /\ lastCutted = 0
    /\ cuts = 0
    /\ sweeps = [c \in RoomCodes |-> 0]
    /\ shutdown = FALSE

NextCreate ==
    \/ \E t \in {"k1", "k2"} : create(t, RoomCodes)
    \/ start("s1", FALSE, FALSE, FALSE)
    \/ events("c1", {MaxPlayers + 1})
    \/ \E id \in RoomCodes : sweep(id)
    \/ \E t \in CreateTasks : Return(t)

SpecCreate == InitCreate /\ [][NextCreate]_vars

(***************************************************************************)
(* SpecFull: the lobby "AAAA" just created, or with 7 or 8 players, and    *)
(* two streams that connect at the same time, as a player of the lobby or  *)
(* as a new one, and leave it again for any reason.                        *)
(***************************************************************************)
\* ids a connecting stream may carry: player 1 and two that no player has
FullIds == {1, MaxPlayers + 1, MaxPlayers + 2}

InitFull ==
    /\ lobbys = [c \in Codes |-> 1]
    /\ \E n \in {0, MaxPlayers - 1, MaxPlayers} :
          lobbyObj = <<[name |-> "AAAA", players |-> ReadyLobby(1..n)]>>
    /\ games = [c \in Codes |-> 0]
    /\ gameObj = <<>>
    /\ poisoned = {}
    /\ locks = [lobbys |-> None, room |-> <<None>>]
    /\ task = [t \in Streams |-> Idle]
    /\ lastCutted = 0
    /\ cuts = 0
    /\ sweeps = [c \in Codes |-> 0]
    /\ shutdown = FALSE

NextFull ==
    \/ \E t \in Streams : events(t, FullIds) \/ lobby_loop(t)
    \/ notify_shutdown
    \/ \E t \in Streams : Return(t)

SpecFull == InitFull /\ [][NextFull]_vars

(***************************************************************************)
(* SpecDeal: a lobby of 4 to 8 ready players and one start request; the    *)
(* teams and the holder are those of the shuffle that changes nothing, the *)
(* cables are dealt in every possible way for the smaller lobbys.          *)
(***************************************************************************)
NextDeal ==
    \/ start("s1", FALSE, FALSE, FALSE)
    \/ /\ \A h \in DOMAIN lobbyObj :
             Cardinality(DOMAIN lobbyObj[h].players) <= MaxDealt
       /\ start("s1", FALSE, FALSE, TRUE)

SpecDeal == InitLobby({"s1"}) /\ [][NextDeal]_vars

(***************************************************************************)
(* SpecLate: a game of 5 players at the start of its 3rd or 4th round, its *)
(* cut requests handled one at a time.  In each of the rounds before, the  *)
(* holder cut its neighbour (1 cut 2, 2 cut 3, .. 5 cut 1) and every cut   *)
(* revealed a Safe cable, so that player 1 holds the wire cutter again and *)
(* every player has one revealed cable per round; next_round has dealt the *)
(* cables left with the shuffle that changes nothing.                      *)
(***************************************************************************)
LateIds == 1..(MinPlayers + 1)
\* the numbers of rounds already played
RoundsPlayed == {2, 3}

InitLate ==
    /\ lobbys = [c \in Codes |-> 0]
    /\ lobbyObj = <<>>
    /\ games = [c \in Codes |-> 1]
    /\ \E t \in TeamOutcomes(LateIds, FALSE), r \in RoundsPlayed :
          LET n == Cardinality(LateIds)
              count == cables_count(n)
              pool == [c \in Cable |->
                          IF c = "Safe" THEN count.safe - r * n
                          ELSE IF c = "Defusing" THEN count.defusing
                          ELSE count.bomb]
              g0 == [name |-> "AAAA",
                     players |-> [p \in LateIds |->
                                    [PlayingPlayer_new(t[p]) EXCEPT
                                        !.revealed_cables = Repeat(r, "Safe")]],
                     wire_cutters |-> 1,
                     defusing_remaining |-> count.defusing,
                     cutted_count |-> 0]
          IN \E g \in distribute_cables(g0, pool, FALSE) : gameObj = <<g>>
    /\ poisoned = {}
    /\ locks = [lobbys |-> None, room |-> <<>>]
    /\ task = [t \in {"h1"} |-> Idle]
    /\ lastCutted = 1
    /\ cuts = 0
    /\ sweeps = [c \in Codes |-> 1]
    /\ shutdown = FALSE

NextLate == cut("h1", LateIds, FALSE)

SpecLate == InitLate /\ [][NextLate]_vars

\* a cut request that passes every check of the handler and of Game::cut:
\* sent by the holder of the wire cutter, on another player of the game
valid_cut(t) ==
    /\ task[t].pc = "cut"
    /\ \E id \in LateIds, player \in LateIds :
          /\ id = gameObj[task[t].h].wire_cutters
          /\ player # id
          /\ cut_apply(t, id, player)

\* the next_round call that ends the 4th round: one cable left per player
last_next_round(t) ==
    /\ task[t].pc = "next_round"
    /\ LET g == gameObj[task[t].h]
       IN HandLen(SumHands(g.players, DOMAIN g.players))
              = Cardinality(DOMAIN g.players)
    /\ cut_next_round(t, FALSE)

\* the steps of the handler in the 4th round that follow from its code
\* alone, and the arrival of the next request
handler_step(t) ==
    \/ \E lobby \in Codes : cut_request(t, lobby)
    \/ cut_broadcast(t)
    \/ last_next_round(t)
    \/ send_round(t)
    \/ game_won_broadcast(t)
    \/ game_won_remove(t)
    \/ Return(t)

\* SpecLateFair: in the 4th round requests keep coming, the handler runs to
\* its end, and the holder of the wire cutter sends a valid cut again and
\* again
SpecLateFair ==
    /\ SpecLate
    /\ WF_vars(handler_step("h1"))
    /\ SF_vars(valid_cut("h1"))

(***************************************************************************)
(* SpecSnap: a started game, one cut handler and the stream of a player    *)
(* who attaches while the others cut.                                      *)
(***************************************************************************)
SnapTasks == {"h1", "g1"}

InitSnap ==
    /\ lobbys = [c \in Codes |-> 0]
    /\ lobbyObj = <<>>
    /\ games = [c \in Codes |-> 1]
    /\ \E g \in Game_new("AAAA", ReadyLobby(GameIds), FALSE, FALSE, FALSE) :
          gameObj = <<g>>
    /\ poisoned = {}
    /\ locks = [lobbys |-> None, room |-> <<>>]
    /\ task = [t \in SnapTasks |-> Idle]
    /\ lastCutted = 0
    /\ cuts = 0
    /\ sweeps = [c \in Codes |-> 1]
    /\ shutdown = FALSE

NextSnap ==
    \/ /\ task["h1"].pc = "idle" => cuts < MaxSnapCuts
       /\ cut("h1", GameIds, FALSE)
    \/ game_events("g1", {MinPlayers})
    \/ Return("g1")
    \/ notify_shutdown

SpecSnap == InitSnap /\ [][NextSnap]_vars

(***************************************************************************)
(* SpecEnd: the game and the two tasks of SpecSnap, with a client that     *)
(* stays connected and a server that is not shut down: the stream takes    *)
(* every step its code can take, the client reads every event it is        *)
(* offered, and the cut handler runs every request to its end.             *)
(***************************************************************************)
\* the steps of a stream whose client keeps reading
stay_step(t) ==
    \/ attach_get(t)
    \/ attach_take(t)
    \/ attach_drain(t)
    \/ attach_init(t)
    \/ attach_round(t)
    \/ attach_connect(t)
    \/ game_recv(t)
    \/ game_drop_broadcast(t)
    \/ game_drop_replace(t)

\* the cut requests of SpecSnap and the steps of their handler
end_cut(t) ==
    /\ task[t].pc = "idle" => cuts < MaxSnapCuts
    /\ cut(t, GameIds, FALSE)

NextEnd ==
    \/ end_cut("h1")
    \/ \E lobby \in Codes : game_from_request("g1", lobby, MinPlayers)
    \/ stay_step("g1")
    \/ Return("g1")

SpecEnd ==
    /\ InitSnap
    /\ [][NextEnd]_vars
    /\ WF_vars(end_cut("h1"))
    /\ WF_vars(stay_step("g1"))

(***************************************************************************)
(* SpecRace: a game of 4 players at the start of its 3rd or 4th round, as  *)
(* the rounds of SpecLate left it (every cut revealed a Safe cable, player *)
(* 1 holds the wire cutter again), with two cut handlers interleaving.     *)
(***************************************************************************)
InitRace ==
    /\ lobbys = [c \in Codes |-> 0]
    /\ lobbyObj = <<>>
    /\ games = [c \in Codes |-> 1]
    /\ \E t \in TeamOutcomes(GameIds, FALSE), r \in RoundsPlayed :
          LET n == Cardinality(GameIds)
              count == cables_count(n)
              pool == [c \in Cable |->
                          IF c = "Safe" THEN count.safe - r * n
                          ELSE IF c = "Defusing" THEN count.defusing
                          ELSE count.bomb]
              g0 == [name |-> "AAAA",
                     players |-> [p \in GameIds |->
                                    [PlayingPlayer_new(t[p]) EXCEPT
                                        !.revealed_cables = Repeat(r, "Safe")]],
                     wire_cutters |-> 1,
                     defusing_remaining |-> count.defusing,
                     cutted_count |-> 0]
          IN \E g \in distribute_cables(g0, pool, FALSE) : gameObj = <<g>>
    /\ poisoned = {}
    /\ locks = [lobbys |-> None, room |-> <<>>]
    /\ task = [t \in Tasks |-> Idle]
    /\ lastCutted = 1
    /\ cuts = 0
    /\ sweeps = [c \in Codes |-> 1]
    /\ shutdown = FALSE

NextRace == \E t \in Tasks : cut(t, GameIds, FALSE)

SpecRace == InitRace /\ [][NextRace]_vars

(***************************************************************************)
(* Properties of SpecGame                                                  *)
(***************************************************************************)
GameHandles == DOMAIN gameObj
PlayersOf(h) == DOMAIN gameObj[h].players
Finished(t, status) == task[t].pc = "done" /\ task[t].status = status

\* C1: in every reachable Game state, cut(c, t) by a player c that does not
\* hold the wire cutter returns DontHaveWireCutter for every target t, t = c
\* included, and leaves the Game as it was.
C1_NonHolderCutFails ==
    \A h \in GameHandles :
        \A c \in PlayersOf(h) \ {gameObj[h].wire_cutters}, t \in PlayersOf(h) :
            Game_cut(gameObj[h], c, t) =
                {[game |-> gameObj[h], res |-> Err("DontHaveWireCutter")]}

\* a handler answered a non-holder's cut of itself, in a game already cut
C1_Witness ==
    \E t \in Tasks :
        /\ Finished(t, "DontHaveWireCutter")
        /\ task[t].id = task[t].player
        /\ cuts > 0

\* C2, as claimed: cut(x, x) returns CannotSelfCut for every player x,
\* holder or not.
C2_SelfCutAlwaysCannotSelfCut ==
    \A h \in GameHandles : \A x \in PlayersOf(h) :
        Game_cut(gameObj[h], x, x) =
            {[game |-> gameObj[h], res |-> Err("CannotSelfCut")]}

\* C2, amended: cut(x, x) returns CannotSelfCut when x holds the wire cutter
\* and DontHaveWireCutter when it does not; the Game is unchanged either way.
C2_SelfCutFails ==
    \A h \in GameHandles : \A x \in PlayersOf(h) :
        Game_cut(gameObj[h], x, x) =
            {[game |-> gameObj[h],
              res |-> IF x = gameObj[h].wire_cutters
                      THEN Err("CannotSelfCut")
                      ELSE Err("DontHaveWireCutter")]}

\* a handler answered the holder's cut of itself
C2_Witness ==
    \E t \in Tasks :
        /\ Finished(t, "CannotSelfCut")
        /\ task[t].id = task[t].player
        /\ task[t].id = gameObj[task[t].h].wire_cutters

RevealedLen(h) ==
    SumLen([p \in PlayersOf(h) |-> Len(gameObj[h].players[p].revealed_cables)],
           PlayersOf(h))
HandsLen(h) ==
    SumLen([p \in PlayersOf(h) |-> HandLen(gameObj[h].players[p].cables)],
           PlayersOf(h))

\* C4: with cut requests handled one at a time, the hands and the revealed
\* histories of a game together always hold the 5n cables it started with.
C4_CablesConserved ==
    \A h \in GameHandles :
        HandsLen(h) + RevealedLen(h) =
            CablesPerPlayer * Cardinality(PlayersOf(h))

\* next_round has just dealt the 4n cables left after a round: 4 to each
C4_Witness ==
    \E t \in Tasks :
        /\ task[t].pc = "send_round"
        /\ RevealedLen(task[t].h) = Cardinality(PlayersOf(task[t].h))
        /\ \A p \in PlayersOf(task[t].h) :
              HandLen(gameObj[task[t].h].players[p].cables) = CablesPerPlayer - 1

\* C9: the wire cutter holder of every Game is one of its players.
C9_HolderIsPlayer ==
    \A h \in GameHandles : gameObj[h].wire_cutters \in PlayersOf(h)

\* a request naming a target outside the game was answered, after a cut
C9_Witness ==
    \E t \in Tasks :
        /\ Finished(t, "The player you specified is not part of this game")
        /\ task[t].player \notin PlayersOf(task[t].h)
        /\ cuts > 0
        /\ gameObj[task[t].h].wire_cutters = lastCutted

\* C10: every successful cut(c, t) leaves the wire cutter with t, whatever
\* cable it reveals, and is made by the target of the successful cut before.
C10_CutHandsOver ==
    [][\A t \in Tasks :
          (task[t].pc = "cut" /\ task'[t].pc = "broadcast") =>
              /\ gameObj'[task[t].h].wire_cutters = task'[t].player
              /\ lastCutted # 0 => task'[t].id = lastCutted]_vars

\* a second or later cut has just revealed the Bomb
C10_Witness ==
    \E t \in Tasks :
        /\ task[t].pc = "broadcast"
        /\ task[t].res.cable = "Bomb"
        /\ cuts > 1
        /\ gameObj[task[t].h].wire_cutters = task[t].player

\* C11: a successful cut that reveals the Bomb returns Win(Moriarty) on that
\* very cut and changes neither cutted_count nor defusing_remaining.
C11_BombWinsAtOnce ==
    [][\A t \in Tasks :
          (/\ task[t].pc = "cut" /\ task'[t].pc = "broadcast"
           /\ task'[t].res.cable = "Bomb") =>
              /\ task'[t].res.outcome = "WinMoriarty"
              /\ gameObj'[task[t].h].cutted_count =
                     gameObj[task[t].h].cutted_count
              /\ gameObj'[task[t].h].defusing_remaining =
                     gameObj[task[t].h].defusing_remaining]_vars

\* the Bomb has just been cut in a round that already counts a cut
C11_Witness ==
    \E t \in Tasks :
        /\ task[t].pc = "broadcast"
        /\ task[t].res.cable = "Bomb"
        /\ task[t].res.outcome = "WinMoriarty"
        /\ gameObj[task[t].h].cutted_count > 0

\* C14: within one round no player is the target of more than one
\* successful cut.  Stated for the first round, which lasts as long as every
\* revealed cable is counted in cutted_count.
C14_OneCutPerPlayerAndRound ==
    \A h \in GameHandles :
        RevealedLen(h) = gameObj[h].cutted_count =>
            \A p \in PlayersOf(h) : Len(gameObj[h].players[p].revealed_cables) <= 1

\* C14 (amended): with one request handled at a time a round counts at
\* most n cuts and no player is the target of two successful cuts in a
\* row; a player can be the target of several cuts of one round.
C14_RoundOfNCuts ==
    [][\A t \in Tasks :
          (task[t].pc = "cut" /\ task'[t].pc = "broadcast") =>
              /\ task'[t].player # lastCutted
              /\ gameObj'[task[t].h].cutted_count
                     <= Cardinality(PlayersOf(task[t].h))]_vars

\* a player has been cut twice in the first round
C14_Witness ==
    \E h \in GameHandles :
        /\ RevealedLen(h) = gameObj[h].cutted_count
        /\ \E p \in PlayersOf(h) :
              Len(gameObj[h].players[p].revealed_cables) >= 2

\* C28: a successful cut that reveals a Safe cable adds 1 to cutted_count
\* and leaves defusing_remaining; one that reveals a Defusing cable adds 1
\* to cutted_count and takes 1 from defusing_remaining; when the cut is not
\* a Win its outcome is RoundEnd if cutted_count has reached the number of
\* players and Nothing if it has not.
C28_CountersAndOutcome ==
    [][\A t \in Tasks :
          (task[t].pc = "cut" /\ task'[t].pc = "broadcast") =>
              LET old == gameObj[task[t].h]
                  new == gameObj'[task[t].h]
                  res == task'[t].res
              IN /\ res.cable = "Safe" =>
                       /\ new.cutted_count = old.cutted_count + 1
                       /\ new.defusing_remaining = old.defusing_remaining
                 /\ res.cable = "Defusing" =>
                       /\ new.cutted_count = old.cutted_count + 1
                       /\ new.defusing_remaining = old.defusing_remaining - 1
                 /\ res.outcome \notin {"WinSherlock", "WinMoriarty"} =>
                       res.outcome =
                           IF new.cutted_count = Cardinality(DOMAIN new.players)
                           THEN "RoundEnd" ELSE "Nothing"]_vars

\* the last cut of a round has just revealed a Defusing cable and ended the
\* round
C28_Witness ==
    \E t \in Tasks :
        /\ task[t].pc = "broadcast"
        /\ task[t].res.cable = "Defusing"
        /\ task[t].res.outcome = "RoundEnd"
        /\ gameObj[task[t].h].cutted_count = Cardinality(PlayersOf(task[t].h))
        /\ gameObj[task[t].h].defusing_remaining > 0

(***************************************************************************)
(* Properties of SpecWin                                                   *)
(***************************************************************************)
WinOutcomes == {"WinSherlock", "WinMoriarty"}

\* C12: a cut returns Win(Sherlock) exactly when it reveals the Defusing
\* cable that brings defusing_remaining from 1 to 0 (also when that cut is
\* the n-th of its round), and on no other cut.
C12_SherlockWinsOnLastDefusing ==
    [][\A t \in Tasks :
          (task[t].pc = "cut" /\ task'[t].pc = "broadcast") =>
              (task'[t].res.outcome = "WinSherlock" <=>
                  /\ task'[t].res.cable = "Defusing"
                  /\ gameObj[task[t].h].defusing_remaining = 1)]_vars

\* C13: once a cut has returned a Win no later cut on that Game succeeds,
\* also for a handler that resolved the Game before the winning cut, and
\* no player is sent more than one Win event.
C13_TerminalAfterWin ==
    [][/\ \A t, u \in Tasks :
            (/\ t # u
             /\ task[u].pc \in {"broadcast", "game_won", "game_won_remove"}
             /\ task[u].res.outcome \in WinOutcomes
             /\ task[t].h = task[u].h
             /\ task[t].pc = "cut") => task'[t].pc # "broadcast"
       /\ \A h \in DOMAIN gameObj' : \A p \in DOMAIN gameObj'[h].players :
            Count(gameObj'[h].players[p].mailbox, "Win") <= 1]_vars

(***************************************************************************)
(* Properties of SpecNew and SpecStart                                     *)
(***************************************************************************)
TeamSize(h, team) ==
    Cardinality({p \in PlayersOf(h) : gameObj[h].players[p].team = team})
\* <<Sherlock, Moriarty>> of Game h
TeamSizes(h) == <<TeamSize(h, "Sherlock"), TeamSize(h, "Moriarty")>>
\* the players of the lobby a Game was built from are its players
OneTeamEach(h) ==
    /\ \E l \in DOMAIN lobbyObj :
          /\ lobbyObj[l].name = gameObj[h].name
          /\ DOMAIN lobbyObj[l].players = PlayersOf(h)
    /\ \A p \in PlayersOf(h) : gameObj[h].players[p].team \in Team

\* C3, as claimed: a Game of n players has 3 Sherlock and 2 Moriarty for
\* n in {4, 5}, 4 and 2 for n = 6, 5 and 3 for n in {7, 8}.
C3_TeamSizesAsTable ==
    \A h \in GameHandles :
        LET n == Cardinality(PlayersOf(h))
        IN /\ OneTeamEach(h)
           /\ n \in 4..5 => TeamSizes(h) = <<3, 2>>
           /\ n = 6 => TeamSizes(h) = <<4, 2>>
           /\ n \in 7..8 => TeamSizes(h) = <<5, 3>>

\* C3, amended: every player gets exactly one team; the sizes are 3 and 2
\* for n = 5, 4 and 2 for n = 6, 5 and 3 for n = 8; for n = 4 and n = 7 the
\* shuffled team vector has one entry more than there are players and its
\* last entry is dealt to nobody, so the sizes are 3/1 or 2/2 for n = 4 and
\* 5/2 or 4/3 for n = 7.
C3_TeamSizes ==
    \A h \in GameHandles :
        LET n == Cardinality(PlayersOf(h))
        IN /\ OneTeamEach(h)
           /\ n = 4 => TeamSizes(h) \in {<<3, 1>>, <<2, 2>>}
           /\ n = 5 => TeamSizes(h) = <<3, 2>>
           /\ n = 6 => TeamSizes(h) = <<4, 2>>
           /\ n = 7 => TeamSizes(h) \in {<<5, 2>>, <<4, 3>>}
           /\ n = 8 => TeamSizes(h) = <<5, 3>>

\* start has inserted a Game of 7 players, 4 of them Sherlock
C3_Witness ==
    \E c \in Codes :
        /\ games[c] # 0
        /\ Cardinality(PlayersOf(games[c])) = 7
        /\ TeamSizes(games[c]) = <<4, 3>>

Answered(status) == {t \in DOMAIN task : Finished(t, status)}

\* C6: of two concurrent start requests on one lobby exactly one answers Ok
\* and inserts a Game, the other answers NotFound or PreconditionRequired;
\* at most one Game is ever built for the lobby.
C6_OneStartWins ==
    /\ Len(gameObj) <= 1
    /\ Cardinality(Answered("Ok")) <= 1
    /\ (\A t \in DOMAIN task : task[t].pc = "done") =>
          /\ Cardinality(Answered("Ok")) = 1
          /\ \A t \in Answered("Ok") : games[task[t].lobby] = task[t].g
          /\ \A t \in DOMAIN task \ Answered("Ok") :
                task[t].status \in {"NotFound", "PreconditionRequired"}

\* one request was answered NotFound while the other, past its check, had
\* not yet inserted its Game
C6_Witness ==
    \E a, b \in StartTasks :
        /\ task[a].pc \in {"start_new", "start_insert"}
        /\ Finished(b, "NotFound")
        /\ task[a].h = 1

(***************************************************************************)
(* Properties of SpecCut                                                   *)
(***************************************************************************)
\* C5: cutted_count never exceeds the number of players, also when cut
\* handlers interleave: no cut is applied between a cut that returns
\* RoundEnd and the next_round of its handler.
C5_CuttedCountBounded ==
    \A h \in GameHandles :
        gameObj[h].cutted_count <= Cardinality(PlayersOf(h))

(***************************************************************************)
(* Properties of SpecLobby                                                 *)
(***************************************************************************)
\* C7: whenever start builds the Game (the step at line 374), the lobby
\* still satisfies the start precondition: 4 to 8 players, all of them
\* ready, whatever the other tasks holding the lobby have done meanwhile.
C7_StartPreconditionAtBuild ==
    [][\A t \in DOMAIN task :
          (task[t].pc = "start_new" /\ task'[t].pc # "start_new") =>
              /\ may_start(lobbyObj[task[t].h])
              /\ Cardinality(DOMAIN lobbyObj[task[t].h].players) <= MaxPlayers]_vars

\* task t holds the lock of Lobby h / of the lobby registry
HoldsRoom(t, h) == locks.room[h] = t
HoldsLobbys(t) == locks.lobbys = t
\* task t is at a statement that locks the lobby registry / Lobby h
RequestsLobbys(t) == task[t].pc = "drop_lobbys"
RequestsRoom(t, h) == task[t].pc \in {"start_check", "join_lock"} /\ task[t].h = h

\* C8: the registry is always locked before a Room, so no state is reached
\* in which one task holds a Room lock and waits for the registry lock
\* while another holds the registry lock and waits for that Room lock.
C8_NoLockOrderDeadlock ==
    \A a, b \in DOMAIN task : \A h \in DOMAIN locks.room :
        ~ /\ HoldsRoom(a, h) /\ RequestsLobbys(a)
          /\ HoldsLobbys(b) /\ RequestsRoom(b, h)

\* C24: a ready request for an id that is not in the lobby changes no
\* ready flag, broadcasts nothing and answers normally, also when the
\* player left the lobby between the request's presence check and its
\* write.
C24_ReadyOfAbsentIsNoOp ==
    [][\A t \in DOMAIN task :
          (/\ task[t].pc \in {"ready_get", "ready_set"}
           /\ task'[t] # task[t]
           /\ task[t].id \notin DOMAIN lobbyObj[task[t].h].players) =>
              /\ lobbyObj' = lobbyObj
              /\ Finished(t, "Ok")']_vars

(***************************************************************************)
(* Properties of SpecConn                                                  *)
(***************************************************************************)
\* stream t owns the read end of the channel of its player
HoldsReadEnd(t) ==
    task[t].pc \in {"attach_drain", "attach_init", "attach_round",
                    "attach_connect", "game_loop", "game_drop",
                    "game_drop_replace"}

AlreadyConnected(t) ==
    Finished(t, "You are already connected to this game")

\* C15: at most one connection task is attached to a Game player at any
\* time, and an attach that finds the slot empty fails with the
\* already-connected error without touching the Game.
C15_OneStreamPerPlayer ==
    [][/\ \A t, u \in DOMAIN task :
            (t # u /\ HoldsReadEnd(t)' /\ HoldsReadEnd(u)') =>
                <<task'[t].h, task'[t].id>> # <<task'[u].h, task'[u].id>>
       /\ \A t \in DOMAIN task :
            (task[t].pc = "attach_take" /\ AlreadyConnected(t)') =>
                gameObj' = gameObj]_vars

\* one stream is in its loop and a second attach for the same player has
\* been refused
C15_Witness ==
    \E t, u \in DOMAIN task :
        /\ task[t].pc = "game_loop"
        /\ AlreadyConnected(u)
        /\ task[u].id = task[t].id
        /\ task[u].h = task[t].h

\* C16: when a stream that took the read end of player p terminates, for
\* whatever reason, the read end is back in p's slot: a player whose slot
\* is empty has a live stream.
C16_ReadEndComesBack ==
    \A h \in DOMAIN gameObj : \A p \in DOMAIN gameObj[h].players :
        connected(gameObj[h].players[p]) =>
            \E t \in DOMAIN task :
                HoldsReadEnd(t) /\ task[t].h = h /\ task[t].id = p

\* C17: the first event of a stream that took the read end is Initialize
\* and no message sent before the take is delivered on it.
C17_FreshStream ==
    [][\A t \in DOMAIN task :
          (HoldsReadEnd(t) /\ Len(task'[t].out) > Len(task[t].out)) =>
              /\ task'[t].out[1] = "Initialize"
              /\ task[t].pc = "game_loop" => task[t].stale = 0]_vars

\* a stream has delivered a message of its loop, and a player who never
\* attached has more messages in its mailbox than the stream was or will be
\* given: the stream discarded some
C17_Witness ==
    \E t \in DOMAIN task :
        /\ task[t].pc = "game_loop"
        /\ Len(task[t].out) >= 3
        /\ LET ps == gameObj[task[t].h].players
           IN \E p \in DOMAIN ps :
                Len(ps[p].mailbox) >
                    Len(task[t].out) - 2 + Len(ps[task[t].id].mailbox)

NoStream == \A t \in DOMAIN task : ~HoldsReadEnd(t)

\* C19: if from some point on no stream is attached to any player of a
\* registered Game and none attaches any more, the Game is eventually
\* removed from the registry (sweeps asleep eventually wake up).
C19_DetachedGameIsSwept ==
    \A c \in Codes : (<>[]NoStream) => <>(games[c] = 0)

(***************************************************************************)
(* Properties of SpecClose                                                 *)
(***************************************************************************)
\* stream t waits in its receive loop
InLoop(t) == task[t].pc \in {"loop", "game_loop"}

\* "Server closed" is in out at most once, and as its last event
ClosedLast(out) ==
    \A i \in DOMAIN out : out[i] = "Server closed" =>
        i = Len(out)

\* C20: once the shutdown signal is raised, every stream waiting in its
\* loop yields "Server closed" once, yields nothing after it and
\* terminates, or ends before for another reason (the client left, Start,
\* Win), whatever its mailbox holds.
C20_ShutdownEndsStreams ==
    \A t \in Streams \cup {"g1"} :
        /\ [](ClosedLast(task[t].out))
        /\ []((shutdown /\ InLoop(t)) => <>(task[t].pc = "done"))

(***************************************************************************)
(* Properties of SpecCreate                                                *)
(***************************************************************************)
\* C21: no room code is in the lobby registry and in the game registry at
\* the same time, whatever the interleaving of create, start and the
\* sweeps.
C21_RegistriesDisjoint ==
    \A c \in DOMAIN lobbys : ~(lobbys[c] # 0 /\ games[c] # 0)

(***************************************************************************)
(* Properties of SpecFull                                                  *)
(***************************************************************************)
\* C22: a stream that connects to a lobby of 8 players is refused as
\* GameFull (also when its id is in the lobby), one whose id is in a lobby
\* of fewer players is refused as AlreadyConnected, and any other is
\* inserted with ready = false; no lobby ever has more than 8 players.
C22_AddPlayer ==
    [][\A t \in DOMAIN task :
          (task[t].pc = "events_add" /\ task'[t].pc # "events_add") =>
              LET h == task[t].h
                  id == task[t].id
                  old == lobbyObj[h].players
                  new == lobbyObj'[h].players
              IN /\ Cardinality(DOMAIN new) <= 8
                 /\ IF Cardinality(DOMAIN old) >= 8
                    THEN new = old /\ Finished(t, "GameFull")'
                    ELSE IF id \in DOMAIN old
                    THEN new = old /\ Finished(t, "AlreadyConnected")'
                    ELSE /\ DOMAIN new = DOMAIN old \cup {id}
                         /\ new[id].ready = FALSE
                         /\ \A p \in DOMAIN old : new[p] = old[p]
                         /\ task'[t].pc = "events_init"]_vars

\* two streams connected at the same time to a lobby of 7: one became its
\* 8th player, the other, carrying the id of a player, was told the lobby
\* is full
C22_Witness ==
    \E t, u \in Streams :
        /\ Finished(t, "GameFull")
        /\ task[t].id \in DOMAIN lobbyObj[task[t].h].players
        /\ task[u].pc = "loop"
        /\ task[u].id = MaxPlayers + 1
        /\ Cardinality(DOMAIN lobbyObj[task[u].h].players) = MaxPlayers

\* stream t is past the add_player that inserted its player and has not
\* terminated
InLobby(t) ==
    task[t].pc \in {"events_init", "events_join", "loop", "return",
                    "drop_remove", "drop_lobbys"}

\* C23: when the stream of a lobby player terminates, for whatever reason
\* after its player was inserted, the player is no longer in the lobby's
\* map, and if the map is empty the lobby's code is no longer in the
\* registry.
C23_LeaveOnEveryExit ==
    [][\A t \in Streams :
          (InLobby(t) /\ ~InLobby(t)') =>
              LET l == lobbyObj'[task[t].h]
              IN /\ task[t].id \notin DOMAIN l.players
                 /\ DOMAIN l.players = {} => lobbys'[l.name] = 0]_vars

(***************************************************************************)
(* Properties of SpecDeal                                                  *)
(***************************************************************************)
\* C25: the Game that start builds for n players (n in 4..8) holds 5n
\* cables in its hands: one Bomb, n Defusing and 4n - 1 Safe, 5 in every
\* hand; its defusing_remaining is n and its cutted_count is 0.
C25_StartDeal ==
    \A h \in DOMAIN gameObj :
        LET g == gameObj[h]
            n == Cardinality(DOMAIN g.players)
            all == SumHands(g.players, DOMAIN g.players)
        IN /\ n \in 4..8
           /\ HandLen(all) = 5 * n
           /\ all["Bomb"] = 1
           /\ all["Defusing"] = n
           /\ all["Safe"] = 4 * n - 1
           /\ \A p \in DOMAIN g.players : HandLen(g.players[p].cables) = 5
           /\ g.defusing_remaining = n
           /\ g.cutted_count = 0

\* start has registered a Game of 5 players in which one hand holds the
\* Bomb and two Defusing cables
C25_Witness ==
    \E c \in Codes :
        /\ games[c] # 0
        /\ Cardinality(PlayersOf(games[c])) = 5
        /\ \E p \in PlayersOf(games[c]) :
              /\ gameObj[games[c]].players[p].cables["Bomb"] = 1
              /\ gameObj[games[c]].players[p].cables["Defusing"] = 2

(***************************************************************************)
(* Properties of SpecLate                                                  *)
(***************************************************************************)
\* C26: with cut requests handled one at a time, whenever a registered
\* Game waits for the next cut, every player the holder can cut (every
\* player but the holder) has at least one cable in its hand.
C26_TargetsHaveCables ==
    \A c \in Codes :
        (/\ games[c] # 0
         /\ games[c] \notin poisoned
         /\ \A t \in DOMAIN task : task[t].pc = "idle") =>
            LET g == gameObj[games[c]]
            IN \A p \in DOMAIN g.players \ {g.wire_cutters} :
                  HandLen(g.players[p].cables) >= 1

(***************************************************************************)
(* Properties of SpecSnap                                                  *)
(***************************************************************************)
\* C27: a Cut event that a stream delivers after its Initialize snapshot
\* describes a cut applied after the snapshot was taken, whatever the
\* interleaving of the attach with the cut handler, which applies its cut
\* and broadcasts it under two acquisitions of the Game lock.
C27_NoCutTwice ==
    [][\A t \in DOMAIN task :
          (/\ task[t].pc = "game_loop"
           /\ Len(task'[t].out) > Len(task[t].out)
           /\ task'[t].out[Len(task'[t].out)] = "Cut") =>
              task[t].n = 0]_vars
(***************************************************************************)
(* Game::next_round as the cut handler calls it                            *)
(***************************************************************************)
\* C29: next_round sets cutted_count to 0; it returns true, every hand as it
\* was, exactly when the hands hold as many cables as there are players;
\* otherwise it returns false, every player then holds pool size / n cables
\* and the hands together hold the same cables as before the call.
C29_NextRound ==
    [][\A t \in DOMAIN task :
          (task[t].pc = "next_round"
              /\ task'[t].pc \in {"game_won", "send_round"}) =>
              LET old == gameObj[task[t].h]
                  new == gameObj'[task[t].h]
                  ids == DOMAIN old.players
                  pool == SumHands(old.players, ids)
                  over == task'[t].pc = "game_won"
              IN /\ new.cutted_count = 0
                 /\ over <=> HandLen(pool) = Cardinality(ids)
                 /\ over => new.players = old.players
                 /\ ~over =>
                       /\ \A p \in ids :
                             HandLen(new.players[p].cables)
                                 = HandLen(pool) \div Cardinality(ids)
                       /\ SumHands(new.players, ids) = pool]_vars
(***************************************************************************)
(* The end of a game                                                       *)
(***************************************************************************)
\* the 4th round of the game of SpecLate starts: 2 cables in every hand
LastRound ==
    /\ cuts = 0
    /\ games["AAAA"] # 0
    /\ LET g == gameObj[games["AAAA"]]
       IN HandLen(SumHands(g.players, DOMAIN g.players))
              = 2 * Cardinality(DOMAIN g.players)

\* C30: a game in its 4th round whose holders keep sending valid cuts, handled
\* one at a time, is eventually removed from the registry of games (by the
\* Win of a cut or by the Win that follows the 4th RoundEnd).
C30_GameEnds == LastRound ~> (games["AAAA"] = 0)
(***************************************************************************)
(* Properties of SpecEnd                                                   *)
(***************************************************************************)
\* a Win was sent to the player of stream t after t took the read end, and
\* t has not received it yet
WinPending(t) ==
    /\ HoldsReadEnd(t)
    /\ LET box == gameObj[task[t].h].players[task[t].id].mailbox
       IN \E i \in DOMAIN box : i > task[t].stale /\ box[i] = "Win"

\* stream t has ended, Win was its last event and its read end is back in
\* the slot
WinClosed(t) ==
    /\ task[t].pc = "done"
    /\ task[t].out # <<>>
    /\ task[t].out[Len(task[t].out)] = "Win"
    /\ gameObj[task[t].h].players[task[t].id].receiver = "slot"

\* C31: a stream that is attached when a Win is broadcast delivers the Win
\* as its last event, ends and gives its read end back, and the game is
\* then out of the registry.
C31_WinEndsStream ==
    /\ WinPending("g1") ~> WinClosed("g1")
    /\ WinPending("g1") ~> (games["AAAA"] = 0)
(***************************************************************************)
(* Properties of SpecRace                                                  *)
(***************************************************************************)
\* no cut on Game h has returned a Win or ended the last round
BeforeWin(h) ==
    /\ games[gameObj[h].name] = h
    /\ h \notin poisoned
    /\ \A t \in DOMAIN task :
          (task[t].h = h
              /\ task[t].pc \in {"broadcast", "game_won", "game_won_remove"})
          => task[t].res.outcome \notin WinOutcomes \cup {"Exhausted"}

\* C32: before a Win, defusing_remaining is the number of Defusing cables
\* in the hands of the players, also after next_round has dealt again and
\* when two cut handlers interleave.
C32_DefusingCounted ==
    \A h \in DOMAIN gameObj :
        BeforeWin(h) =>
            gameObj[h].defusing_remaining
                = SumHands(gameObj[h].players, PlayersOf(h))["Defusing"]
(***************************************************************************)
(* The order of the events of two cut handlers                             *)
(***************************************************************************)
\* the handlers other than t that have applied a cut to Game h (line 385)
\* and not yet broadcast it (line 396)
Unsent(t, h) ==
    {u \in DOMAIN task \ {t} : task[u].pc = "broadcast" /\ task[u].h = h}

\* handler t sends msg to the players of its Game in this step
Sends(t, pc, msg) ==
    /\ task[t].pc = pc
    /\ \E p \in PlayersOf(task[t].h) :
          LET box == gameObj'[task[t].h].players[p].mailbox
          IN /\ Len(box) > Len(gameObj[task[t].h].players[p].mailbox)
             /\ box[Len(box)] = msg

\* C33: the Cut events are sent in the order in which the cuts were
\* applied (a handler that sends its Cut while another has one unsent
\* applied its cut first: its target is no longer the holder), and the
\* RoundStart of a round is sent before the Cut of any cut of that round
\* (when it is sent, every cut counted in the new round is still unsent).
C33_EventsInOrder ==
    [][\A t \in DOMAIN task :
          /\ (Sends(t, "broadcast", "Cut") /\ Unsent(t, task[t].h) # {}) =>
                gameObj[task[t].h].wire_cutters # task[t].player
          /\ Sends(t, "send_round", "RoundStart") =>
                gameObj[task[t].h].cutted_count
                    <= Cardinality(Unsent(t, task[t].h))]_vars
(***************************************************************************)
(* The sweeps of a Game that was attached to again                         *)
(***************************************************************************)
\* C34: a second sweep of a Game is spawned only by the detach of a stream
\* that attached after the first was spawned, and of the sweeps asleep the
\* oldest wakes up first; so a sweep that wakes up while another is still
\* asleep was spawned before a player attached again, and it does not
\* remove the Game.
C34_OlderSweepSpares ==
    [][\A id \in Codes :
          (sweeps[id] >= 2 /\ sweeps'[id] = sweeps[id] - 1) =>
              games'[id] = games[id]]_vars

====
